---------------------------- MODULE Spec2Model ----------------------------
(***************************************************************************)
(* A model of dcr-transcribe's per-channel pipeline                        *)
(* (src/src/channel_processor.rs), its voice-activity detector             *)
(* (src/src/vad.rs), its wave writer (src/src/wav_writer.rs) and retry     *)
(* buffer (src/src/buffer.rs), and the recognizer session's queue ends     *)
(* (src/src/aws_transcribe.rs, src/src/transcribe_backend.rs).             *)
(*                                                                         *)
(* Two specifications:                                                     *)
(*   Spec     one ChannelProcessor: start, process_chunk, stop, the        *)
(*            monitor sender being set and cleared, the session task       *)
(*            ending by itself;                                            *)
(*   SpecVad  one VoiceActivityDetector fed a bounded run of chunks.       *)
(*                                                                         *)
(* A chunk is modelled by its sample count and by whether its loudness is  *)
(* above threshold_db (the outcome of calculate_rms / rms_to_db and the    *)
(* comparison of vad.rs:87-93); sample values are not modelled.            *)
(***************************************************************************)
EXTENDS Integers, Sequences, FiniteSets, TLC

\* ------------------------------------------------------------------ bounds

\* Chunks delivered to one pipeline in a run of Spec.
MaxChunks == 3

\* Chunks fed to the detector in a run of SpecVad.
MaxVadChunks == 6

\* Chunks pushed into the retry buffer in a run of SpecBuf.
MaxPushes == 4

\* Capture callbacks in a run of SpecInput.
MaxCallbacks == 2

\* SpecSession: the clock's last value, the sessions opened and the
\* transcripts produced per session.
MaxTime == 3
MaxSessions == 2
MaxTranscripts == 2

\* SpecResults: the transcript events the event loop handles.
MaxEvents == 34

\* Chunks pushed into the retry buffer in a run of SpecRead.
MaxReadPushes == 2

\* Chunks a channel queue holds (mpsc::channel(1024 * 1024) in main.rs).
QueueCap == 1

\* -------------------------------------------------------------- parameters

\* audio.sample_rate (config.rs default_sample_rate).
SampleRate == 16000

\* buffer.capacity_seconds of the modelled configuration.
CapacitySeconds == 1

\* Sample counts of the chunks fed to the model: an empty chunk, chunks
\* shorter than one millisecond (8), of a whole number of milliseconds
\* (16, 32), of 1.5 ms (24), and one of 1001 ms (16016) that is also longer
\* than the whole retry buffer.
ChunkLens == {0, 8, 16, 24, 32, 16016}

\* The sample counts of the chunks delivered to the pipeline of Spec: an
\* empty chunk, one of 1 ms, one of 1001 ms.
PipelineChunkLens == {0, 16, 16016}

\* vad.hangover_duration_ms values of the configurations of SpecVad, and of
\* those of Spec.
Hangovers == {0, 3, 4, 1001}
PipelineHangovers == {0, 3}

\* vad.silence_disconnect_threshold_ms of the modelled configuration.
SilenceThresholdMs == 2

\* ------------------------------------------------------- chunk duration

\* The sample counts n (at SampleRate, among ChunkLens) for which the f64
\* expression n / sample_rate * 1000.0 is below the exact quotient's integer
\* value: 16016.0 / 16000.0 rounds to 1.00099999999999988987, and times
\* 1000.0 rounds to 1000.9999999999998863, which `as u32` truncates to 1000
\* although 16016 samples are exactly 1001 ms.  For every other member of
\* ChunkLens the f64 result truncates to the exact floor.
F64RoundsBelow == {16016}

\* (samples.len() as f64 / sample_rate as f64 * 1000.0) as u32
DurationMs(len) ==
    LET exact == (len * 1000) \div SampleRate
    IN  IF len \in F64RoundsBelow THEN exact - 1 ELSE exact

\* The mathematical value the f64 expression approximates.
ExactMs(len) == (len * 1000) \div SampleRate

\* ------------------------------------------------------------------- VAD

Silence == [kind |-> "Silence", hangover_remaining_ms |-> 0]
Voice(h) == [kind |-> "Voice", hangover_remaining_ms |-> h]

\* A detector that falls back to Silence on an empty chunk.
VadProcessEmptyResets(state, hangover, len, loud) ==
    IF len = 0 THEN Silence
    ELSE LET duration_ms == DurationMs(len)
         IN  IF state.kind = "Silence"
             THEN IF loud THEN Voice(hangover) ELSE Silence
             ELSE IF loud THEN Voice(hangover)
                  ELSE IF state.hangover_remaining_ms > duration_ms
                       THEN Voice(state.hangover_remaining_ms - duration_ms)
                       ELSE Silence

\* VoiceActivityDetector::process: the state after a chunk of `len` samples
\* whose loudness is above the threshold iff `loud`.
VadProcess(state, hangover, len, loud) ==
    IF len = 0 THEN state
    ELSE LET duration_ms == DurationMs(len)
         IN  IF state.kind = "Silence"
             THEN IF loud THEN Voice(hangover) ELSE Silence
             ELSE IF loud THEN Voice(hangover)
                  ELSE IF state.hangover_remaining_ms > duration_ms
                       THEN Voice(state.hangover_remaining_ms - duration_ms)
                       ELSE Silence

\* What process returns: false for an empty chunk, else whether the new
\* state is Voice.
VadReturns(state, hangover, len, loud) ==
    len # 0 /\ VadProcess(state, hangover, len, loud).kind = "Voice"


\* ------------------------------------------------------------- retry buffer

DropPolicies == {"DropOldest", "DropNewest", "Block"}

\* AudioBuffer::new: capacity_seconds * sample_rate.
CapacitySamples == CapacitySeconds * SampleRate

\* Sample counts of the chunks pushed in SpecBuf: an empty chunk, chunks of
\* which two but not three fit the capacity, one that fills the capacity
\* exactly, and one longer than the whole capacity.
BufChunkLens == {0, 6000, 16000, 16016}

\* Capture timestamps of the chunks pushed in SpecBuf (BufferedChunk's
\* timestamp_ns, from the wall clock, which can step back).
Timestamps == {1, 2}

RECURSIVE Evict(_, _, _)
RECURSIVE EvictBlockKeeps(_, _, _)
RECURSIVE EvictStrict(_, _, _)

\* An eviction loop whose Block arm only logs.
EvictBlockKeeps(chunks, total, policy) ==
    IF total <= CapacitySamples \/ chunks = <<>> \/ policy = "Block" THEN
        [chunks |-> chunks, total_samples |-> total]
    ELSE IF policy = "DropNewest" THEN
        EvictBlockKeeps(SubSeq(chunks, 1, Len(chunks) - 1),
                        total - chunks[Len(chunks)].len, policy)
    ELSE
        EvictBlockKeeps(Tail(chunks), total - Head(chunks).len, policy)

\* An eviction loop that runs while total_samples >= capacity_samples.
EvictStrict(chunks, total, policy) ==
    IF total < CapacitySamples \/ chunks = <<>> THEN
        [chunks |-> chunks, total_samples |-> total]
    ELSE IF policy = "DropNewest" THEN
        EvictStrict(SubSeq(chunks, 1, Len(chunks) - 1),
                    total - chunks[Len(chunks)].len, policy)
    ELSE
        EvictStrict(Tail(chunks), total - Head(chunks).len, policy)

\* The while loop of AudioBuffer::push: evict per policy until the total
\* fits.  pop_front / pop_back on an empty deque returns None and changes
\* nothing; the loop condition is then false already, since the total of
\* an empty deque is 0.
Evict(chunks, total, policy) ==
    IF total <= CapacitySamples \/ chunks = <<>> THEN
        [chunks |-> chunks, total_samples |-> total]
    ELSE IF policy = "DropNewest" THEN
        Evict(SubSeq(chunks, 1, Len(chunks) - 1),
              total - chunks[Len(chunks)].len, policy)
    ELSE
        Evict(Tail(chunks), total - Head(chunks).len, policy)

RECURSIVE EvictSteps(_, _, _)
\* The number of iterations the while loop of AudioBuffer::push makes.
EvictSteps(chunks, total, policy) ==
    IF total <= CapacitySamples THEN 0
    ELSE IF chunks = <<>> THEN 1 + EvictSteps(chunks, total, policy)
    ELSE IF policy = "DropNewest" THEN
        1 + EvictSteps(SubSeq(chunks, 1, Len(chunks) - 1),
                       total - chunks[Len(chunks)].len, policy)
    ELSE
        1 + EvictSteps(Tail(chunks), total - Head(chunks).len, policy)

\* A push whose DropOldest arm pops from the back.
PushPopsBack(buf, chunk, policy) ==
    Evict(Append(buf.chunks, chunk), buf.total_samples + chunk.len,
          IF policy = "DropOldest" THEN "DropNewest" ELSE policy)

\* AudioBuffer::push.
Push(buf, chunk, policy) ==
    Evict(Append(buf.chunks, chunk), buf.total_samples + chunk.len, policy)

\* -------------------------------------------------- retry buffer, reads

\* Nanoseconds per sample at SampleRate.
NsPerSample == 1000000000 \div SampleRate

\* Sample counts, nanosecond offsets, timestamps and durations used in
\* SpecRead.  1003 samples are 62687500 ns.
ReadChunkLens == {0, 1, 3, 1003}
ReadStamps == {0, 62500}
ReadInstants == {0, 62500, 100000, 125000, 62562500, 62687500}
LatestDurationsUs == {0, 100, 125, 250, 62600, 1000000}

\* The sample counts n (at SampleRate, among ReadChunkLens) for which the
\* f64 expression n / sample_rate * 1e9 is below the exact value:
\* 1003.0 / 16000.0 * 1e9 = 62687499.99999999, truncated to 62687499.
F64DurationRoundsBelow == {1003}

\* The offsets (among the differences of ReadInstants and ReadStamps) for
\* which the f64 expression (ns / 1e9) * sample_rate is below the exact
\* integer: 62562500 ns are 1001 samples and give 1000.9999999999999,
\* 62687500 ns are 1003 samples and give 1002.9999999999999.
F64OffsetRoundsBelow == {62562500, 62687500}

\* (chunk.samples.len() as f64 / sample_rate as f64 * 1e9) as u128
DurationNs(len) ==
    IF len \in F64DurationRoundsBelow THEN len * NsPerSample - 1
    ELSE len * NsPerSample

\* ((offset_ns as f64 / 1e9) * sample_rate as f64) as usize
NsToSamples(offset_ns) ==
    IF offset_ns \in F64OffsetRoundsBelow THEN (offset_ns \div NsPerSample) - 1
    ELSE offset_ns \div NsPerSample

\* (duration_seconds * sample_rate as f64) as usize, the duration given in
\* microseconds.
SamplesNeeded(t_us) == (t_us * (SampleRate \div 1000)) \div 1000

\* The samples lo .. hi-1 of a chunk (a Vec of samples is modelled as the
\* sequence of the chunk slices it is made of; an empty slice adds
\* nothing).
Slice(chunk, lo, hi) ==
    IF lo < hi THEN <<[id |-> chunk.id, lo |-> lo, hi |-> hi]>> ELSE <<>>

RECURSIVE GetLatestFrom(_, _, _, _, _)
RECURSIVE GetLatestFromHead(_, _, _, _, _)

\* A get_latest that takes the head of the oldest chunk it uses.
GetLatestFromHead(chunks, i, samples_needed, result, len) ==
    IF i = 0 \/ len >= samples_needed THEN result
    ELSE LET chunk == chunks[i]
             needed == samples_needed - len
         IN  IF chunk.len <= needed
             THEN GetLatestFromHead(chunks, i - 1, samples_needed,
                                    Slice(chunk, 0, chunk.len) \o result,
                                    len + chunk.len)
             ELSE Slice(chunk, 0, needed) \o result

\* The loop of get_latest over chunks.iter().rev(), at chunk i with
\* `result` (of `len` samples) collected.
GetLatestFrom(chunks, i, samples_needed, result, len) ==
    IF i = 0 \/ len >= samples_needed THEN result
    ELSE LET chunk == chunks[i]
             needed == samples_needed - len
         IN  IF chunk.len <= needed
             THEN GetLatestFrom(chunks, i - 1, samples_needed,
                                Slice(chunk, 0, chunk.len) \o result,
                                len + chunk.len)
             ELSE Slice(chunk, chunk.len - needed, chunk.len) \o result

\* AudioBuffer::get_latest.
GetLatest(buf, t_us) ==
    GetLatestFrom(buf.chunks, Len(buf.chunks), SamplesNeeded(t_us), <<>>, 0)

RECURSIVE GetRangeFrom(_, _, _, _, _)
\* The loop of get_range, at chunk i.  A slice whose start is beyond its
\* end panics.
GetRangeFrom(chunks, i, from_ns, to_ns, result) ==
    IF i > Len(chunks) THEN [result |-> result, panic |-> FALSE]
    ELSE LET chunk == chunks[i]
             chunk_end_ns == chunk.ts + DurationNs(chunk.len)
             start_offset == IF chunk.ts < from_ns
                             THEN NsToSamples(from_ns - chunk.ts) ELSE 0
             end_offset == IF chunk_end_ns > to_ns
                           THEN NsToSamples(to_ns - chunk.ts) ELSE chunk.len
             end == IF end_offset < chunk.len THEN end_offset ELSE chunk.len
         IN  IF chunk_end_ns >= from_ns /\ chunk.ts <= to_ns
                /\ start_offset < chunk.len
             THEN IF start_offset > end
                  THEN [result |-> result, panic |-> TRUE]
                  ELSE GetRangeFrom(chunks, i + 1, from_ns, to_ns,
                                    result \o Slice(chunk, start_offset, end))
             ELSE GetRangeFrom(chunks, i + 1, from_ns, to_ns, result)

\* AudioBuffer::get_range.
GetRange(buf, from_ns, to_ns) ==
    GetRangeFrom(buf.chunks, 1, from_ns, to_ns, <<>>)

RECURSIVE ClearBefore(_, _)
\* AudioBuffer::clear_before: pop from the front while the front chunk ends
\* before timestamp_ns.
ClearBefore(buf, timestamp_ns) ==
    IF buf.chunks = <<>> THEN buf
    ELSE LET chunk == Head(buf.chunks)
             chunk_end_ns == chunk.ts + DurationNs(chunk.len)
         IN  IF chunk_end_ns < timestamp_ns
             THEN ClearBefore([chunks |-> Tail(buf.chunks),
                               total_samples |->
                                   buf.total_samples - chunk.len],
                              timestamp_ns)
             ELSE buf

\* ------------------------------------------------------------- wave writer

\* A writer whose loop starts at the second sample.
WriteSamplesSkipsFirst(wav, len, fails) ==
    LET opened == IF wav.current_file THEN wav
                  ELSE [current_file |-> ~fails, samples_written |-> 0]
        n == IF len > 0 THEN len - 1 ELSE 0
    IN  IF fails
        THEN [wav |-> opened, ok |-> FALSE, written |-> 0]
        ELSE [wav |-> [current_file |-> TRUE,
                       samples_written |-> opened.samples_written + n],
              ok |-> TRUE, written |-> n]

\* WavWriter::write_samples.  `fails` is the outcome of the file system: the
\* first write_sample (or the create of WavWriter::start, when no file is
\* open) returns an error, and the `?` leaves before samples_written is
\* advanced.  `written` is the number of samples that reached the file.
WriteSamples(wav, len, fails) ==
    LET opened == IF wav.current_file THEN wav
                  ELSE [current_file |-> ~fails, samples_written |-> 0]
    IN  IF fails
        THEN [wav |-> opened, ok |-> FALSE, written |-> 0]
        ELSE [wav |-> [current_file |-> TRUE,
                       samples_written |-> opened.samples_written + len],
              ok |-> TRUE, written |-> len]

\* WavWriter::finalize.
Finalize(wav) == [current_file |-> FALSE,
                  samples_written |-> IF wav.current_file THEN 0
                                      ELSE wav.samples_written]

\* -------------------------------------------------------- channel pipeline

\* The outcomes TranscribeBackend::start_stream's Result allows.
StartStreamOutcomes == {"Ok", "Err"}

\* ChannelProcessor::reconnect_transcribe.  `outcome` is what start_stream
\* returns (transcribe_backend is always Some: both arms put it back).
ReconnectTranscribe(self, outcome) ==
    IF self.connection_state = "Connected" THEN
        [self |-> self, ok |-> TRUE, start_stream |-> "none"]
    ELSE IF outcome = "Ok" THEN
        [self |-> [self EXCEPT !.transcribe_tx = "Some",
                               !.transcribe_rx = "Some",
                               !.connection_state = "Connected",
                               !.transcribe_status = "Connected"],
         ok |-> TRUE, start_stream |-> "Ok"]
    ELSE
        [self |-> [self EXCEPT !.transcribe_status = "Error"],
         ok |-> FALSE, start_stream |-> "Err"]

\* ChannelProcessor::disconnect_transcribe.
DisconnectTranscribe(self) ==
    [self EXCEPT !.transcribe_tx = "None",
                 !.connection_state = "Disconnected",
                 !.silence_duration_ms = 0,
                 !.transcribe_status = "Disconnected"]

\* Error arms that drop the sender and leave connection_state as it is.
SendFailedKeepsState(self) ==
    [self EXCEPT !.transcribe_tx = "None"]

\* The three error arms of tx.send(..).await in process_chunk.
SendFailed(self) ==
    [self EXCEPT !.transcribe_tx = "None",
                 !.connection_state = "Disconnected",
                 !.transcribe_status = "Disconnected"]


\* What one process_chunk call did, beside the state it leaves: its return
\* value, how the VAD classified the chunk ("unclassified" when the call
\* returned before the VAD ran), whether start_stream was called and what it
\* returned, whether a send to the recognizer failed, whether
\* disconnect_transcribe was called, the items put on the recognizer's
\* outbound queue, and what became of the monitor send.
Out(self, ret, classified, start_stream, send_failed, disconnect, forwarded) ==
    [self |-> self, ret |-> ret, classified |-> classified,
     start_stream |-> start_stream, send_failed |-> send_failed,
     disconnect |-> disconnect, forwarded |-> forwarded, monitor |-> "none"]

Pcm(chunk) == [id |-> chunk.id, kind |-> "pcm", len |-> chunk.len]
Zeros(chunk) == [id |-> chunk.id, kind |-> "zeros", len |-> chunk.len]

\* (true, Disconnected): reconnect, send the backlog, send the chunk.
\* in.fresh_alive: the new session's receiver is still alive when the sends
\* are made (its task, spawned by start_stream, runs concurrently and ends
\* by itself on an upstream start error).
VoiceDisconnected(self, chunk, in, send_buffered) ==
    LET r == ReconnectTranscribe(self, in.start_stream)
    IN  IF ~r.ok
        THEN \* self.reconnect_transcribe().await?
             Out(r.self, "Err", "voice", r.start_stream, FALSE, FALSE, <<>>)
        ELSE LET backlog == r.self.buffered_samples_during_disconnect
                 sent_backlog ==
                     IF send_buffered /\ backlog # <<>>
                        /\ r.self.transcribe_tx = "Some" /\ in.fresh_alive
                     THEN backlog ELSE <<>>
                 cleared == [r.self EXCEPT
                               !.buffered_samples_during_disconnect = <<>>]
                 sent == IF cleared.transcribe_tx # "Some" THEN cleared
                         ELSE IF in.fresh_alive THEN cleared
                         ELSE SendFailed(cleared)
             IN  Out([sent EXCEPT !.silence_duration_ms = 0],
                     "Ok", "voice", r.start_stream,
                     cleared.transcribe_tx = "Some" /\ ~in.fresh_alive, FALSE,
                     sent_backlog \o
                       (IF cleared.transcribe_tx = "Some" /\ in.fresh_alive
                        THEN <<Pcm(chunk)>> ELSE <<>>))

\* (true, Connected), with the error arm of the send forgotten.
VoiceConnectedIgnoresError(self, chunk, in) ==
    Out([self EXCEPT !.silence_duration_ms = 0], "Ok", "voice", "none",
        self.transcribe_tx = "Some" /\ ~in.rx_alive, FALSE,
        IF self.transcribe_tx = "Some" /\ in.rx_alive
        THEN <<Pcm(chunk)>> ELSE <<>>)

\* (true, Connected): send the chunk.  in.rx_alive: the receiver of the
\* session transcribe_tx belongs to is alive (tokio's send fails iff it was
\* dropped).
VoiceConnected(self, chunk, in) ==
    LET reset == [self EXCEPT !.silence_duration_ms = 0]
    IN  IF reset.transcribe_tx # "Some"
        THEN Out(reset, "Ok", "voice", "none", FALSE, FALSE, <<>>)
        ELSE IF in.rx_alive
        THEN Out([reset EXCEPT !.transcribe_status = "Connected"],
                 "Ok", "voice", "none", FALSE, FALSE, <<Pcm(chunk)>>)
        ELSE Out(SendFailed(reset), "Ok", "voice", "none", TRUE, FALSE, <<>>)

\* (false, Connected), disconnecting only when the total exceeds the
\* threshold.
SilenceConnectedStrict(self, chunk, in, threshold) ==
    LET counted == [self EXCEPT !.silence_duration_ms =
                        self.silence_duration_ms + DurationMs(chunk.len)]
    IN  IF counted.silence_duration_ms > threshold
        THEN Out(DisconnectTranscribe(counted), "Ok", "silence", "none",
                 FALSE, TRUE, <<>>)
        ELSE IF counted.transcribe_tx # "Some"
        THEN Out(counted, "Ok", "silence", "none", FALSE, FALSE, <<>>)
        ELSE IF in.rx_alive
        THEN Out(counted, "Ok", "silence", "none", FALSE, FALSE,
                 <<Zeros(chunk)>>)
        ELSE Out(SendFailed(counted), "Ok", "silence", "none", TRUE, FALSE,
                 <<>>)

\* (false, Connected): count the silence; disconnect at the threshold, else
\* send zero samples of the chunk's length.
SilenceConnected(self, chunk, in, threshold) ==
    LET counted == [self EXCEPT !.silence_duration_ms =
                        self.silence_duration_ms + DurationMs(chunk.len)]
    IN  IF counted.silence_duration_ms >= threshold
        THEN Out(DisconnectTranscribe(counted), "Ok", "silence", "none",
                 FALSE, TRUE, <<>>)
        ELSE IF counted.transcribe_tx # "Some"
        THEN Out(counted, "Ok", "silence", "none", FALSE, FALSE, <<>>)
        ELSE IF in.rx_alive
        THEN Out(counted, "Ok", "silence", "none", FALSE, FALSE,
                 <<Zeros(chunk)>>)
        ELSE Out(SendFailed(counted), "Ok", "silence", "none", TRUE, FALSE,
                 <<>>)

\* (false, Disconnected): nothing.
SilenceDisconnected(self) ==
    Out(self, "Ok", "silence", "none", FALSE, FALSE, <<>>)

\* Step 7: the monitor send; its error is logged and dropped.
MonitorSend(out, in) ==
    IF out.self.audio_output_tx
    THEN [out EXCEPT !.monitor = IF in.monitor_ok THEN "sent" ELSE "failed"]
    ELSE out

\* A match that opens a session on silence too.
MatchStateConnectsOnSilence(self, is_voice, chunk, in, cfg) ==
    IF self.connection_state = "Disconnected"
    THEN VoiceDisconnected(self, chunk, in, cfg.send_buffered_on_reconnect)
    ELSE IF is_voice THEN VoiceConnected(self, chunk, in)
    ELSE SilenceConnected(self, chunk, in, cfg.silence_threshold_ms)

\* Step 6: match (is_voice, &self.connection_state).
MatchState(self, is_voice, chunk, in, cfg) ==
    IF is_voice /\ self.connection_state = "Disconnected"
    THEN VoiceDisconnected(self, chunk, in, cfg.send_buffered_on_reconnect)
    ELSE IF is_voice
    THEN VoiceConnected(self, chunk, in)
    ELSE IF self.connection_state = "Connected"
    THEN SilenceConnected(self, chunk, in, cfg.silence_threshold_ms)
    ELSE SilenceDisconnected(self)

\* ChannelProcessor::process_chunk.  chunk = [id, len, loud]; `in` holds the
\* outcomes of the collaborators during the call.
ProcessChunkOp(self, chunk, in, cfg) ==
    LET w == WriteSamples(self.wav, chunk.len, in.write_fails)
    IN  IF ~w.ok
        THEN \* self.wav_writer.write_samples(samples)?
             [Out([self EXCEPT !.wav = w.wav], "Err", "unclassified", "none",
                  FALSE, FALSE, <<>>) EXCEPT !.monitor = "none"]
        ELSE LET is_voice == VadReturns(self.vad, cfg.hangover_duration_ms,
                                        chunk.len, chunk.loud)
                 s == [self EXCEPT
                         !.wav = w.wav,
                         !.buffer = Push(self.buffer,
                                         [id |-> chunk.id, len |-> chunk.len],
                                         cfg.drop_policy),
                         !.vad = VadProcess(self.vad, cfg.hangover_duration_ms,
                                            chunk.len, chunk.loud)]
                 m == [MatchState(s, is_voice, chunk, in, cfg) EXCEPT
                         !.classified = IF is_voice THEN "voice" ELSE "silence"]
             IN  IF m.ret = "Err" THEN m ELSE MonitorSend(m, in)


\* ---------------------------------------------------------- audio input

\* audio.channels (K) of the modelled configurations, the number of channel
\* senders handed to AudioInput::start (one per enabled channel of the
\* configuration), and the frames (N) of one callback.
ChannelCounts == {1, 2}
SenderCounts == {1, 2, 3}
FrameCounts == {0, 1, 2}

\* Values of the device's samples, as f32: one inside [-1, 1] and one
\* outside.
InputSamples == {-2, 1}

\* to_float_sample().into(), clamp(-1.0, 1.0), (clamped * i16::MAX as f32)
\* as i16.
ConvertSample(x) ==
    LET clamped == IF x < -1 THEN -1 ELSE IF x > 1 THEN 1 ELSE x
    IN  clamped * 32767

\* A callback that reads the frame as planar, channel after channel.
ExtractChannelPlanar(data, num_channels, ch) ==
    LET samples_per_channel == Len(data) \div num_channels
    IN  [frame \in 1..samples_per_channel |->
            ConvertSample(data[ch * samples_per_channel + frame])]

\* The inner loop of the callback: the samples of channel ch (from 0) of an
\* interleaved frame, converted to i16.
ExtractChannel(data, num_channels, ch) ==
    LET samples_per_channel == Len(data) \div num_channels
    IN  [frame \in 1..samples_per_channel |->
            ConvertSample(data[(frame - 1) * num_channels + ch + 1])]

\* mpsc::Sender::try_send on a queue [items, closed]: Closed when the
\* receiver is gone, Full when no slot is free, else the chunk is enqueued.
TrySend(queue, chunk) ==
    IF queue.closed THEN [queue |-> queue, result |-> "Closed"]
    ELSE IF Len(queue.items) >= QueueCap
    THEN [queue |-> queue, result |-> "Full"]
    ELSE [queue |-> [queue EXCEPT !.items = Append(@, chunk)],
          result |-> "Ok"]

RECURSIVE SendChannels(_, _, _, _, _, _)
RECURSIVE SendChannelsStopsOnError(_, _, _, _, _, _)

\* A callback that returns at the first failed enqueue.
SendChannelsStopsOnError(queues, results, data, ts, num_channels, ch) ==
    IF ch >= num_channels \/ ch >= Len(queues)
    THEN [queues |-> queues, results |-> results]
    ELSE LET chunk == [samples |-> ExtractChannel(data, num_channels, ch),
                       timestamp_ns |-> ts]
             r == TrySend(queues[ch + 1], chunk)
         IN  IF r.result # "Ok"
             THEN [queues |-> queues,
                   results |-> [results EXCEPT ![ch + 1] = r.result]]
             ELSE SendChannelsStopsOnError(
                      [queues EXCEPT ![ch + 1] = r.queue],
                      [results EXCEPT ![ch + 1] = r.result],
                      data, ts, num_channels, ch + 1)

\* The callback's loop over the channels from ch on: extract, build the
\* chunk with the callback's timestamp, try_send, log a failure, go on.
SendChannels(queues, results, data, ts, num_channels, ch) ==
    IF ch >= num_channels \/ ch >= Len(queues)
    THEN [queues |-> queues, results |-> results]
    ELSE LET chunk == [samples |-> ExtractChannel(data, num_channels, ch),
                       timestamp_ns |-> ts]
             r == TrySend(queues[ch + 1], chunk)
         IN  SendChannels([queues EXCEPT ![ch + 1] = r.queue],
                          [results EXCEPT ![ch + 1] = r.result],
                          data, ts, num_channels, ch + 1)

\* main's loop over config.channels: a disabled channel is skipped; each
\* enabled one gets a pipeline with its configured id, and its sender is
\* pushed to channel_senders. The result lists the pipelines' ids in the
\* order of their senders.
EnabledChannels(chans) ==
    LET enabled(channel) == channel.enabled
        kept == SelectSeq(chans, enabled)
    IN  [p \in 1..Len(kept) |-> kept[p].id]

\* The channel lists of a two-channel device: both ids, in either order,
\* each enabled or not.
ChannelConfigs ==
    {<<[id |-> a, enabled |-> ea], [id |-> b, enabled |-> eb]>> :
        <<a, b, ea, eb>> \in {t \in {0, 1} \X {0, 1} \X BOOLEAN \X BOOLEAN :
                                 t[1] # t[2]}}

\* data_callback of AudioInput::build_stream on one frame, the timestamp
\* taken on entry.
DataCallback(queues, data, ts, num_channels) ==
    SendChannels(queues, [c \in 1..Len(queues) |-> "none"], data, ts,
                 num_channels, 0)

\* -------------------------------------------------------- filler removal

\* A text is the sequence of its characters. The characters of the filler
\* words are written in Latin letters: "e" for え, "tsu" for っ, "to" for と,
\* "a" for あ, "no" for の, "-" for ー; " " is the space and "x" any other
\* character.
FillerWords ==
    << <<"e", "tsu", "to">>,
       <<"a", "no">>,
       <<"e", "e", "to">>,
       <<"e", "e">>,
       <<"e", "-">>,
       <<"e", "-", "to">>,
       <<"a", "no", "-">>,
       <<"tsu", "to">>,
       <<"tsu", "to", "-">> >>

\* The longest text the function is applied to, and its characters.
MaxTextLen == 5

TextChars == {"e", "to", "a", "no", " ", "x"}

Texts == UNION {[1..n -> TextChars] : n \in 0..MaxTextLen}

\* str::starts_with, str::ends_with, str::contains.
StartsWith(s, pat) ==
    /\ Len(pat) <= Len(s)
    /\ SubSeq(s, 1, Len(pat)) = pat

EndsWith(s, pat) ==
    /\ Len(pat) <= Len(s)
    /\ SubSeq(s, Len(s) - Len(pat) + 1, Len(s)) = pat

Contains(s, pat) ==
    \E i \in 1..(Len(s) - Len(pat) + 1) : SubSeq(s, i, i + Len(pat) - 1) = pat

\* str::replace from character i on: the matches of pat, found left to
\* right without overlap, become to.
RECURSIVE ReplaceFrom(_, _, _, _)
ReplaceFrom(s, pat, to, i) ==
    IF i > Len(s) THEN <<>>
    ELSE IF StartsWith(SubSeq(s, i, Len(s)), pat)
         THEN to \o ReplaceFrom(s, pat, to, i + Len(pat))
         ELSE <<s[i]>> \o ReplaceFrom(s, pat, to, i + 1)

Replace(s, pat, to) == ReplaceFrom(s, pat, to, 1)

\* The body of the loop over filler_words: "filler " and " filler" are
\* removed everywhere, then one filler at the start and one at the end.
RemoveFiller(result, filler) ==
    LET r1 == Replace(result, filler \o <<" ">>, <<>>)
        r2 == Replace(r1, <<" ">> \o filler, <<>>)
        r3 == IF StartsWith(r2, filler)
              THEN SubSeq(r2, Len(filler) + 1, Len(r2))
              ELSE r2
    IN  IF EndsWith(r3, filler)
        THEN SubSeq(r3, 1, Len(r3) - Len(filler))
        ELSE r3

\* for filler in &filler_words, from the i-th word on.
RECURSIVE RemoveFillersFrom(_, _)
RemoveFillersFrom(result, i) ==
    IF i > Len(FillerWords) THEN result
    ELSE RemoveFillersFrom(RemoveFiller(result, FillerWords[i]), i + 1)

\* while result.contains("  ") { result = result.replace("  ", " ") }
RECURSIVE CollapseSpaces(_)
CollapseSpaces(s) ==
    IF Contains(s, <<" ", " ">>)
    THEN CollapseSpaces(Replace(s, <<" ", " ">>, <<" ">>))
    ELSE s

\* str::trim.
RECURSIVE TrimStart(_)
TrimStart(s) ==
    IF s # <<>> /\ Head(s) = " " THEN TrimStart(Tail(s)) ELSE s

RECURSIVE TrimEnd(_)
TrimEnd(s) ==
    IF s # <<>> /\ s[Len(s)] = " " THEN TrimEnd(SubSeq(s, 1, Len(s) - 1)) ELSE s

Trim(s) == TrimEnd(TrimStart(s))

\* ChannelProcessor::remove_filler_words.
RemoveFillerWords(text) == Trim(CollapseSpaces(RemoveFillersFrom(text, 1)))

\* ---------------------------------------------------------------- framer

\* max_samples = (sample_rate as f64 * 0.2) as usize and
\* initial_min_samples = (sample_rate as f64 * 0.15) as usize; both products
\* are exact at the sample rate of the model.
max_samples == (SampleRate * 20) \div 100

initial_min_samples == (SampleRate * 15) \div 100

\* The chunk_count below which the initial target is used.
InitialChunks == 5

\* min_samples = if chunk_count < 5 { initial_min_samples } else { max_samples }
MinSamples(count) ==
    IF count < InitialChunks THEN initial_min_samples ELSE max_samples

\* The accumulator is the run of received samples from sample first on,
\* held samples long. Samples are numbered from 0 in the order received.
DrainKeepsHead(first, held, n) == [first |-> first, len |-> held - n]

\* pcm_buffer.drain(..n) and pcm_buffer.split_off(0) (n = held): the first
\* n samples leave the accumulator.
Drain(first, held, n) == [first |-> first + n, len |-> held - n]

\* The chunks the framer receives in a session, and their lengths.
MaxFramerChunks == 7

FramerChunkLens == {800, 3200}

\* ------------------------------------------------------------------ state

VARIABLES
    \* configuration (config.rs), fixed at construction
    connect_on_startup, send_buffered_on_reconnect, silence_threshold_ms,
    hangover_duration_ms, drop_policy,
    \* ChannelProcessor's fields
    transcribe_tx, transcribe_rx, connection_state, silence_duration_ms,
    buffered_samples_during_disconnect, audio_output_tx,
    \* the channel's ChannelState.transcribe_status in the TuiState the
    \* pipeline publishes to
    transcribe_status,
    \* VoiceActivityDetector.state
    vad,
    \* WavWriter.current_file (is a file open) and samples_written
    current_file, samples_written,
    \* AudioBuffer: [chunks, total_samples]
    buffer,
    \* where the pipeline is in its life: "new", "started", "stopped", or
    \* "failed" when start() returned an error
    phase,
    \* the receiver end of the session transcribe_tx sends to is alive
    rx_alive,
    \* observations of the run, not state of the program:
    \* what the last operation did (a process_chunk call's Out and the state
    \* it started from)
    call,
    \* chunks and samples delivered to process_chunk so far
    nchunks, delivered,
    \* samples written to the wave file start() opened; a write has failed;
    \* a chunk was processed after stop()
    file_samples, write_failed, late_chunk,
    \* sum of DurationMs of the silence-classified chunks since the last
    \* voice-classified chunk
    sil_sum,
    \* a send has failed and no voice-classified chunk was processed since
    pending_reconnect,
    \* sessions opened (start_stream returned Ok); a chunk was classified voice
    sessions, voice_seen,
    \* ids of the voice-classified chunks not delivered because the reconnect
    \* or the send failed; ids of the chunks forwarded to a recognizer session
    undelivered, forwarded_ids,
    \* SpecVad: the detector's state before the last chunk, the last chunk,
    \* the chunks fed, and the run of sub-threshold chunks since the last
    \* loud chunk
    vad_prev, vad_in, nvad, quiet,
    \* what the last call of the detector returned
    vad_ret

VARIABLES
    \* SpecBuf: the chunks pushed so far, the buffer before the last push,
    \* and the iterations of the last push's eviction loop; SpecRead: the
    \* last call of get_latest, get_range or clear_before
    pushed, push_before, push_steps, rd

bufVars == <<pushed, push_before, push_steps, rd>>

VARIABLES
    \* SpecInput: audio.channels; the channel queues, front first, each
    \* [items, closed]; the callbacks so far; the last callback's frame,
    \* timestamp, per-queue try_send results and the queues it found and
    \* left; the configuration's channel list, each [id, enabled]
    num_channels, queues, ncallbacks, cb, channels

inVars == <<num_channels, queues, ncallbacks, cb, channels>>

VARIABLES
    \* SpecMain: the running flag; where the chunk task, the transcript
    \* task, the output monitor task and the main task of main.rs are; the
    \* task that holds the pipeline's mutex ("none" when free); the capture
    \* stream is running; the chunks in the channel queue and those that
    \* have arrived; the queues (of "recognizer", "monitor") that are full
    \* and whose consumer has stopped draining
    running, chunk_task, transcript_task, output_monitor_task, main_task,
    processor_lock, capturing, in_queue, arrived, stalled

mainVars == <<running, chunk_task, transcript_task, output_monitor_task,
              main_task, processor_lock, capturing, in_queue, arrived,
              stalled>>

VARIABLES
    \* SpecRouter: the dashboard's selected-output field; the router's
    \* last_selected and current_selected (an Option<usize> is the set of
    \* its values: {} for None, {c} for Some(c)); per pipeline,
    \* whether audio_output_tx is Some; per pipeline, who holds its mutex
    selected, last_selected, current_selected, monitor_tx, processor_locks

routerVars == <<selected, last_selected, current_selected, monitor_tx,
                processor_locks>>

VARIABLES
    \* SpecSession: the wall clock; the backend's start_time field; the
    \* recognizer session (open, the start_time its task captured, the
    \* seconds of audio streamed to it); the transcripts the session has
    \* produced, oldest first; the clock at the last successful reconnect and
    \* the number of sessions opened
    now, start_time, session, transcripts, reconnect_at, nsessions

sessVars == <<now, start_time, session, transcripts, reconnect_at, nsessions>>

VARIABLES
    \* SpecResults: the inbound transcript queue [items, closed]; the events
    \* handled; the last offer (id, queue before and after, result of
    \* try_send); the transcripts dropped and those received by the consumer
    result_queue, nevents, offer, ndropped, nreceived

resVars == <<result_queue, nevents, offer, ndropped, nreceived>>

VARIABLES
    \* SpecText: a transcript's text, what remove_filler_words returns for
    \* it, what it returns for that result, and whether it has been called
    cleaned

textVars == <<cleaned>>

VARIABLES
    \* SpecFramer: the framer's PCM accumulator (its length in samples), its
    \* chunk_count, the frames sent upstream, oldest first, each
    \* [first, len, on, target], whether the framer's loop runs, the chunks
    \* received, the number of the accumulator's first sample and the
    \* samples received
    pcm_buffer, chunk_count, frames, framing, nreceived_chunks, pcm_first,
    nsamples

framerVars == <<pcm_buffer, chunk_count, frames, framing, nreceived_chunks,
                pcm_first, nsamples>>

VARIABLES
    \* SpecTasks: the pipeline's connection_state; the sessions whose audio
    \* sender (transcribe_tx) and whose transcript receiver (transcribe_rx)
    \* the pipeline holds (an Option is the set of its values); the
    \* background tasks spawned by start_stream, oldest first, each
    \* [alive, audio_open, results]; the transcripts poll_transcripts has
    \* returned; the result of try_send for each transcript emitted
    conn, tx_session, rx_session, session_tasks, polled, offers

taskVars == <<conn, tx_session, rx_session, session_tasks, polled, offers>>

VARIABLES
    \* SpecLocks: the holder of the processors-map mutex ("none" when
    \* free); per pipeline, the holder of its mutex; where each chunk task
    \* and transcript task is; where the router is, with the pipelines it
    \* is about to clear and to set; the channels main has registered
    map_lock, proc_lock, lock_pc, router_pc, registered

lockVars == <<map_lock, proc_lock, lock_pc, router_pc, registered>>

\* The variables of the recognizer backend's specifications, of the
\* transcript text's and of the locks'.
backVars == <<sessVars, resVars, textVars, framerVars, taskVars, lockVars>>

\* The variables of the specifications other than Spec and SpecVad.
extVars == <<bufVars, inVars, mainVars, routerVars, backVars>>

cfgVars == <<connect_on_startup, send_buffered_on_reconnect,
             silence_threshold_ms, hangover_duration_ms, drop_policy>>
selfVars == <<transcribe_tx, transcribe_rx, connection_state,
              silence_duration_ms, buffered_samples_during_disconnect,
              audio_output_tx, transcribe_status, vad, current_file,
              samples_written, buffer>>
obsVars == <<call, nchunks, delivered, file_samples, write_failed, late_chunk,
             sil_sum, pending_reconnect, sessions, voice_seen, undelivered,
             forwarded_ids>>
vadVars == <<vad_prev, vad_in, nvad, quiet, vad_ret>>
vars == <<cfgVars, selfVars, phase, rx_alive, obsVars, vadVars, extVars>>

\* The ChannelProcessor as one record, for the operators above.
Self ==
    [transcribe_tx |-> transcribe_tx, transcribe_rx |-> transcribe_rx,
     connection_state |-> connection_state,
     silence_duration_ms |-> silence_duration_ms,
     buffered_samples_during_disconnect |-> buffered_samples_during_disconnect,
     audio_output_tx |-> audio_output_tx,
     transcribe_status |-> transcribe_status, vad |-> vad,
     wav |-> [current_file |-> current_file,
              samples_written |-> samples_written],
     buffer |-> buffer]

Cfg ==
    [connect_on_startup |-> connect_on_startup,
     send_buffered_on_reconnect |-> send_buffered_on_reconnect,
     silence_threshold_ms |-> silence_threshold_ms,
     hangover_duration_ms |-> hangover_duration_ms,
     drop_policy |-> drop_policy]

\* The assignment of a ChannelProcessor record to the fields.
SetSelf(s) ==
    /\ transcribe_tx' = s.transcribe_tx
    /\ transcribe_rx' = s.transcribe_rx
    /\ connection_state' = s.connection_state
    /\ silence_duration_ms' = s.silence_duration_ms
    /\ buffered_samples_during_disconnect' = s.buffered_samples_during_disconnect
    /\ audio_output_tx' = s.audio_output_tx
    /\ transcribe_status' = s.transcribe_status
    /\ vad' = s.vad
    /\ current_file' = s.wav.current_file
    /\ samples_written' = s.wav.samples_written
    /\ buffer' = s.buffer

NoChunk == [id |-> 0, len |-> 0, loud |-> FALSE]
NoQuiet == [samples |-> 0, len |-> 0, uniform |-> TRUE, after_loud |-> FALSE,
            left |-> FALSE]

\* The record of an operation that is not a process_chunk call.
OtherCall(op) ==
    [op |-> op, chunk |-> NoChunk, ret |-> "Ok", classified |-> "unclassified",
     start_stream |-> "none", send_failed |-> FALSE, disconnect |-> FALSE,
     forwarded |-> <<>>, monitor |-> "none",
     conn_before |-> connection_state, tx_before |-> transcribe_tx,
     rx_alive_before |-> rx_alive, sil_sum_before |-> sil_sum,
     pending_before |-> pending_reconnect]

\* ChannelProcessor::new and VoiceActivityDetector::new / AudioBuffer::new /
\* WavWriter::new.
InitSelf ==
    /\ transcribe_tx = "None"
    /\ transcribe_rx = "None"
    /\ connection_state = "Disconnected"
    /\ silence_duration_ms = 0
    /\ buffered_samples_during_disconnect = <<>>
    /\ audio_output_tx = FALSE
    /\ transcribe_status = "Disconnected"
    /\ vad = Silence
    /\ current_file = FALSE
    /\ samples_written = 0
    /\ buffer = [chunks |-> <<>>, total_samples |-> 0]

InitObs ==
    /\ call = [op |-> "new", chunk |-> NoChunk, ret |-> "Ok",
               classified |-> "unclassified", start_stream |-> "none",
               send_failed |-> FALSE, disconnect |-> FALSE,
               forwarded |-> <<>>, monitor |-> "none",
               conn_before |-> "Disconnected", tx_before |-> "None",
               rx_alive_before |-> FALSE, sil_sum_before |-> 0,
               pending_before |-> FALSE]
    /\ nchunks = 0
    /\ delivered = 0
    /\ file_samples = 0
    /\ write_failed = FALSE
    /\ late_chunk = FALSE
    /\ sil_sum = 0
    /\ pending_reconnect = FALSE
    /\ sessions = 0
    /\ voice_seen = FALSE
    /\ undelivered = {}
    /\ forwarded_ids = {}

InitVadObs ==
    /\ vad_prev = Silence
    /\ vad_in = NoChunk
    /\ nvad = 0
    /\ quiet = NoQuiet
    /\ vad_ret = FALSE

\* No read of the retry buffer has been made.
NoRead ==
    [op |-> "none", a |-> 0, b |-> 0,
     before |-> [chunks |-> <<>>, total_samples |-> 0],
     after |-> [chunks |-> <<>>, total_samples |-> 0],
     result |-> <<>>, panic |-> FALSE]

InitBufObs ==
    /\ pushed = <<>>
    /\ push_before = [chunks |-> <<>>, total_samples |-> 0]
    /\ push_steps = 0
    /\ rd = NoRead

NoCallback ==
    [data |-> <<>>, ts |-> 0, results |-> <<>>, before |-> <<>>,
     after |-> <<>>]

InitInObs ==
    /\ ncallbacks = 0
    /\ cb = NoCallback

InitInIdle ==
    /\ num_channels = 1
    /\ queues = <<>>
    /\ channels = <<>>
    /\ InitInObs

\* main, once the pipeline is started and the tasks are spawned.
InitMainTasks ==
    /\ running = TRUE
    /\ chunk_task = "head"
    /\ transcript_task = "head"
    /\ output_monitor_task = "head"
    /\ main_task = "wait"
    /\ processor_lock = "none"
    /\ capturing = TRUE
    /\ in_queue = 0
    /\ arrived = 0
    /\ stalled = {}

\* The ids of the enabled channels: each has a pipeline in processors_map
\* and an entry in the dashboard's channel list.
RouterChannels == {0, 1, 2}

\* TuiState::new and ChannelProcessor::new: nothing selected, no pipeline
\* has a monitor sender; the router task starts with last_selected = None.
InitRouterIdle ==
    /\ selected = {}
    /\ last_selected = {}
    /\ current_selected = {}
    /\ monitor_tx = [c \in RouterChannels |-> FALSE]
    /\ processor_locks = [c \in RouterChannels |-> "none"]

\* AwsTranscribeBackend::new at process start: no session yet.
InitSessIdle ==
    /\ now = 0
    /\ start_time = 0
    /\ session = [open |-> FALSE, start_time |-> 0, audio_secs |-> 0]
    /\ transcripts = <<>>
    /\ reconnect_at = 0
    /\ nsessions = 0

\* No offer has been made.
NoOffer == [id |-> 0, before |-> <<>>, after |-> <<>>, result |-> "none"]

\* start_stream: mpsc::channel::<TranscriptResult>(32), empty.
InitResults ==
    /\ result_queue = [items |-> <<>>, closed |-> FALSE]
    /\ nevents = 0
    /\ offer = NoOffer
    /\ ndropped = 0
    /\ nreceived = 0

\* No text has been cleaned.
NoClean == [text |-> <<>>, once |-> <<>>, twice |-> <<>>, done |-> FALSE]

InitText == cleaned = NoClean

\* start_stream's input_stream: pcm_buffer is empty and chunk_count is 0.
InitFramer ==
    /\ pcm_buffer = 0
    /\ chunk_count = 0
    /\ frames = <<>>
    /\ framing = TRUE
    /\ nreceived_chunks = 0
    /\ pcm_first = 0
    /\ nsamples = 0

\* ChannelProcessor::new: Disconnected, no sender, no receiver, no task.
InitTasks ==
    /\ conn = "Disconnected"
    /\ tx_session = {}
    /\ rx_session = {}
    /\ session_tasks = <<>>
    /\ polled = <<>>
    /\ offers = <<>>

\* The channels of SpecLocks and their tasks.
LockChannels == {0, 1}

PipelineTasks == {"chunk", "transcript"} \X LockChannels

\* main before its loop over the processors: the map is empty, no task is
\* spawned.
InitLocks ==
    /\ map_lock = "none"
    /\ proc_lock = [c \in LockChannels |-> "none"]
    /\ lock_pc = [t \in PipelineTasks |-> "idle"]
    /\ router_pc = [pc |-> "idle", old |-> {}, new |-> {}]
    /\ registered = {}

InitBackIdle ==
    /\ InitSessIdle
    /\ InitResults
    /\ InitText
    /\ InitFramer
    /\ InitTasks
    /\ InitLocks

\* The variables of the other specifications, at rest.
InitExt ==
    /\ InitBufObs
    /\ InitInIdle
    /\ InitMainTasks
    /\ InitRouterIdle
    /\ InitBackIdle

Init ==
    /\ connect_on_startup \in BOOLEAN
    /\ send_buffered_on_reconnect \in BOOLEAN
    /\ silence_threshold_ms = SilenceThresholdMs
    /\ hangover_duration_ms \in PipelineHangovers
    /\ drop_policy = "DropOldest"
    /\ InitSelf
    /\ phase = "new"
    /\ rx_alive = FALSE
    /\ InitObs
    /\ InitVadObs
    /\ InitExt

\* ---------------------------------------------------------------- actions

\* ChannelProcessor::start: open the wave file, and connect if
\* connect_on_startup; an error of either is returned (`?`).
Start ==
    /\ phase = "new"
    /\ \E wav_fails \in BOOLEAN, outcome \in StartStreamOutcomes :
         LET opened == [Self EXCEPT !.wav = [current_file |-> TRUE,
                                             samples_written |-> 0]]
             r == IF wav_fails
                  THEN [self |-> Self, ok |-> FALSE, start_stream |-> "none"]
                  ELSE IF connect_on_startup
                  THEN ReconnectTranscribe(opened, outcome)
                  ELSE [self |-> [opened EXCEPT
                                    !.transcribe_status = "Disconnected"],
                        ok |-> TRUE, start_stream |-> "none"]
         IN  /\ wav_fails => outcome = "Ok"
             /\ SetSelf(r.self)
             /\ phase' = IF r.ok THEN "started" ELSE "failed"
             /\ rx_alive' = (r.start_stream = "Ok")
             /\ sessions' = sessions + (IF r.start_stream = "Ok" THEN 1 ELSE 0)
             /\ call' = [OtherCall("start") EXCEPT
                            !.ret = IF r.ok THEN "Ok" ELSE "Err",
                            !.start_stream = r.start_stream]
    /\ UNCHANGED <<extVars, cfgVars, vadVars, nchunks, delivered, file_samples,
                   write_failed, late_chunk, sil_sum, pending_reconnect,
                   voice_seen, undelivered, forwarded_ids>>

\* One process_chunk call, with the chunk and the collaborators' outcomes
\* as inputs; a collaborator the call cannot reach (the monitor when no
\* sender is set, start_stream when Connected, a write of no sample to an
\* open file) has one outcome.  One call can also come after stop():
\* ChannelProcessor has no guard against it, and the chunk task of main.rs
\* (lines 205-219), which tests the running flag only at the head of its
\* loop, can receive one more chunk after the transcript task has called
\* stop() (lines 255-259).
ProcessChunk ==
    /\ phase = "started" \/ (phase = "stopped" /\ ~late_chunk)
    /\ nchunks < MaxChunks
    /\ \E len \in PipelineChunkLens,
          loud \in BOOLEAN,
          write_fails \in BOOLEAN,
          outcome \in IF connection_state = "Disconnected"
                      THEN StartStreamOutcomes ELSE {"Ok"},
          fresh_alive \in IF connection_state = "Disconnected"
                          THEN BOOLEAN ELSE {TRUE},
          monitor_ok \in IF audio_output_tx THEN BOOLEAN ELSE {TRUE} :
         /\ len = 0 => ~loud
         /\ write_fails => (len > 0 \/ ~current_file)
         /\ LET chunk == [id |-> nchunks + 1, len |-> len, loud |-> loud]
                in == [write_fails |-> write_fails, start_stream |-> outcome,
                       fresh_alive |-> fresh_alive, rx_alive |-> rx_alive,
                       monitor_ok |-> monitor_ok]
            IN  \E out \in {ProcessChunkOp(Self, chunk, in, Cfg)} :
                \E sent_ids \in {{out.forwarded[i].id :
                                    i \in DOMAIN out.forwarded}} :
                  /\ SetSelf(out.self)
                  /\ rx_alive' = IF out.self.transcribe_tx = "None" THEN FALSE
                                 ELSE IF out.start_stream = "Ok" THEN fresh_alive
                                 ELSE rx_alive
                  /\ call' = [op |-> "chunk", chunk |-> chunk, ret |-> out.ret,
                              classified |-> out.classified,
                              start_stream |-> out.start_stream,
                              send_failed |-> out.send_failed,
                              disconnect |-> out.disconnect,
                              forwarded |-> out.forwarded,
                              monitor |-> out.monitor,
                              conn_before |-> connection_state,
                              tx_before |-> transcribe_tx,
                              rx_alive_before |-> rx_alive,
                              sil_sum_before |-> sil_sum,
                              pending_before |-> pending_reconnect]
                  /\ nchunks' = nchunks + 1
                  /\ delivered' = delivered + len
                  /\ file_samples' =
                       file_samples +
                       (IF phase = "started"
                        THEN WriteSamples(Self.wav, len, write_fails).written
                        ELSE 0)
                  /\ write_failed' = (write_failed \/ write_fails)
                  /\ late_chunk' = (late_chunk \/ phase = "stopped")
                  /\ sil_sum' = CASE out.classified = "voice" -> 0
                                  [] out.classified = "silence" ->
                                        sil_sum + DurationMs(len)
                                  [] OTHER -> sil_sum
                  /\ pending_reconnect' =
                       CASE out.send_failed -> TRUE
                         [] out.classified = "voice" -> FALSE
                         [] OTHER -> pending_reconnect
                  /\ sessions' = sessions +
                                 (IF out.start_stream = "Ok" THEN 1 ELSE 0)
                  /\ voice_seen' = (voice_seen \/ out.classified = "voice")
                  /\ undelivered' =
                       (undelivered \ sent_ids) \cup
                       (IF out.classified = "voice"
                           /\ (out.start_stream = "Err" \/ out.send_failed)
                        THEN {chunk.id} ELSE {})
                  /\ forwarded_ids' = forwarded_ids \cup sent_ids
    /\ UNCHANGED <<extVars, cfgVars, vadVars, phase>>

\* ChannelProcessor::stop: drop the sender, finalize the wave file.
Stop ==
    /\ phase = "started"
    /\ SetSelf([Self EXCEPT !.transcribe_tx = "None",
                            !.wav = Finalize(Self.wav)])
    /\ phase' = "stopped"
    /\ rx_alive' = FALSE
    /\ call' = OtherCall("stop")
    /\ UNCHANGED <<extVars, cfgVars, vadVars, nchunks, delivered, file_samples,
                   write_failed, late_chunk, sil_sum, pending_reconnect,
                   sessions, voice_seen, undelivered, forwarded_ids>>

\* The session's background task ends by itself (upstream start error,
\* event-stream end, receive error: aws_transcribe.rs `return` and
\* `break 'outer`), which drops every clone of the audio receiver.
TaskEnds ==
    /\ transcribe_tx = "Some"
    /\ rx_alive
    /\ rx_alive' = FALSE
    /\ call' = OtherCall("task_ends")
    /\ UNCHANGED <<extVars, cfgVars, selfVars, vadVars, phase, nchunks, delivered,
                   file_samples, write_failed, late_chunk, sil_sum,
                   pending_reconnect, sessions, voice_seen, undelivered,
                   forwarded_ids>>

\* ChannelProcessor::set_audio_output.
SetAudioOutput ==
    /\ phase = "started"
    /\ ~audio_output_tx
    /\ SetSelf([Self EXCEPT !.audio_output_tx = TRUE])
    /\ call' = OtherCall("set_audio_output")
    /\ UNCHANGED <<extVars, cfgVars, vadVars, phase, rx_alive, nchunks, delivered,
                   file_samples, write_failed, late_chunk, sil_sum,
                   pending_reconnect, sessions, voice_seen, undelivered,
                   forwarded_ids>>

\* ChannelProcessor::clear_audio_output.
ClearAudioOutput ==
    /\ phase = "started"
    /\ audio_output_tx
    /\ SetSelf([Self EXCEPT !.audio_output_tx = FALSE])
    /\ call' = OtherCall("clear_audio_output")
    /\ UNCHANGED <<extVars, cfgVars, vadVars, phase, rx_alive, nchunks, delivered,
                   file_samples, write_failed, late_chunk, sil_sum,
                   pending_reconnect, sessions, voice_seen, undelivered,
                   forwarded_ids>>

Next ==
    \/ Start
    \/ ProcessChunk
    \/ Stop
    \/ TaskEnds
    \/ SetAudioOutput
    \/ ClearAudioOutput

Spec == Init /\ [][Next]_vars

\* ------------------------------------------------------------- SpecVad

InitVad ==
    /\ connect_on_startup = FALSE
    /\ send_buffered_on_reconnect = FALSE
    /\ silence_threshold_ms = SilenceThresholdMs
    /\ hangover_duration_ms \in Hangovers
    /\ drop_policy = "DropOldest"
    /\ InitSelf
    /\ phase = "new"
    /\ rx_alive = FALSE
    /\ InitObs
    /\ InitVadObs
    /\ InitExt

\* VoiceActivityDetector::process on one chunk.
VadFeed ==
    /\ nvad < MaxVadChunks
    /\ \E len \in ChunkLens, loud \in BOOLEAN :
         /\ len = 0 => ~loud
         /\ vad' = VadProcess(vad, hangover_duration_ms, len, loud)
         /\ vad_prev' = vad
         /\ vad_ret' = VadReturns(vad, hangover_duration_ms, len, loud)
         /\ vad_in' = [id |-> 0, len |-> len, loud |-> loud]
         /\ nvad' = nvad + 1
         /\ quiet' =
              IF loud THEN [NoQuiet EXCEPT !.after_loud = TRUE]
              ELSE [samples |-> quiet.samples + len,
                    len |-> IF quiet.samples = 0 /\ quiet.len = 0
                            THEN len ELSE quiet.len,
                    uniform |-> quiet.uniform /\ len > 0
                                /\ (quiet.len = 0 \/ quiet.len = len),
                    after_loud |-> quiet.after_loud,
                    left |-> vad.kind = "Voice"
                             /\ VadProcess(vad, hangover_duration_ms, len,
                                           loud).kind = "Silence"]
    /\ UNCHANGED <<extVars, cfgVars, transcribe_tx, transcribe_rx,
                   connection_state, silence_duration_ms,
                   buffered_samples_during_disconnect, audio_output_tx,
                   transcribe_status, current_file, samples_written, buffer,
                   phase, rx_alive, obsVars>>

NextVad == VadFeed

SpecVad == InitVad /\ [][NextVad]_vars

\* ------------------------------------------------------------- SpecBuf

\* AudioBuffer::new for each drop policy, nothing pushed yet.
InitBuf ==
    /\ connect_on_startup = FALSE
    /\ send_buffered_on_reconnect = FALSE
    /\ silence_threshold_ms = SilenceThresholdMs
    /\ hangover_duration_ms = 0
    /\ drop_policy \in DropPolicies
    /\ InitSelf
    /\ phase = "new"
    /\ rx_alive = FALSE
    /\ InitObs
    /\ InitVadObs
    /\ InitExt

\* AudioBuffer::push of one chunk.
BufPush ==
    /\ Len(pushed) < MaxPushes
    /\ \E len \in BufChunkLens, ts \in Timestamps :
         LET chunk == [id |-> Len(pushed) + 1, len |-> len, ts |-> ts]
         IN  /\ buffer' = Push(buffer, chunk, drop_policy)
             /\ pushed' = Append(pushed, chunk)
             /\ push_before' = buffer
             /\ push_steps' = EvictSteps(Append(buffer.chunks, chunk),
                                         buffer.total_samples + len,
                                         drop_policy)
    /\ UNCHANGED <<cfgVars, transcribe_tx, transcribe_rx, connection_state,
                   silence_duration_ms, buffered_samples_during_disconnect,
                   audio_output_tx, transcribe_status, vad, current_file,
                   samples_written, phase, rx_alive, obsVars, vadVars,
                   inVars, mainVars, routerVars, backVars, rd>>

NextBuf == BufPush

SpecBuf == InitBuf /\ [][NextBuf]_vars

\* ------------------------------------------------------------ SpecRead

\* What the calls on the retry buffer leave alone.
bufFrame == <<cfgVars, transcribe_tx, transcribe_rx, connection_state,
              silence_duration_ms, buffered_samples_during_disconnect,
              audio_output_tx, transcribe_status, vad, current_file,
              samples_written, phase, rx_alive, obsVars, vadVars, inVars,
              mainVars, routerVars, backVars>>

\* AudioBuffer::new with the DropOldest policy, nothing pushed yet.
InitRead ==
    /\ connect_on_startup = FALSE
    /\ send_buffered_on_reconnect = FALSE
    /\ silence_threshold_ms = SilenceThresholdMs
    /\ hangover_duration_ms = 0
    /\ drop_policy = "DropOldest"
    /\ InitSelf
    /\ phase = "new"
    /\ rx_alive = FALSE
    /\ InitObs
    /\ InitVadObs
    /\ InitExt

\* push of a chunk captured not before the chunk pushed last.
ReadPush ==
    /\ Len(pushed) < MaxReadPushes
    /\ \E len \in ReadChunkLens, ts \in ReadStamps :
         /\ \A i \in DOMAIN buffer.chunks : buffer.chunks[i].ts <= ts
         /\ LET chunk == [id |-> Len(pushed) + 1, len |-> len, ts |-> ts]
            IN  /\ buffer' = Push(buffer, chunk, drop_policy)
                /\ pushed' = Append(pushed, chunk)
    /\ rd' = NoRead
    /\ UNCHANGED <<bufFrame, push_before, push_steps>>

\* get_latest(duration_seconds).
ReadGetLatest ==
    /\ \E t_us \in LatestDurationsUs :
         rd' = [op |-> "get_latest", a |-> t_us, b |-> 0, before |-> buffer,
                after |-> buffer, result |-> GetLatest(buffer, t_us),
                panic |-> FALSE]
    /\ UNCHANGED <<bufFrame, buffer, pushed, push_before, push_steps>>

\* get_range(from_ns, to_ns).
ReadGetRange ==
    /\ \E from_ns \in ReadInstants, to_ns \in ReadInstants :
         \E r \in {GetRange(buffer, from_ns, to_ns)} :
           rd' = [op |-> "get_range", a |-> from_ns, b |-> to_ns,
                  before |-> buffer, after |-> buffer,
                  result |-> r.result, panic |-> r.panic]
    /\ UNCHANGED <<bufFrame, buffer, pushed, push_before, push_steps>>

\* clear_before(timestamp_ns).
ReadClearBefore ==
    /\ \E timestamp_ns \in ReadInstants :
         /\ buffer' = ClearBefore(buffer, timestamp_ns)
         /\ rd' = [op |-> "clear_before", a |-> timestamp_ns, b |-> 0,
                   before |-> buffer,
                   after |-> ClearBefore(buffer, timestamp_ns),
                   result |-> <<>>, panic |-> FALSE]
    /\ UNCHANGED <<bufFrame, pushed, push_before, push_steps>>

NextRead == ReadPush \/ ReadGetLatest \/ ReadGetRange \/ ReadClearBefore

SpecRead == InitRead /\ [][NextRead]_vars

\* ----------------------------------------------------------- SpecInput

\* The pipeline's variables, unused by the specification.
InitPipelineIdle ==
    /\ connect_on_startup = FALSE
    /\ send_buffered_on_reconnect = FALSE
    /\ silence_threshold_ms = SilenceThresholdMs
    /\ hangover_duration_ms = 0
    /\ drop_policy = "DropOldest"
    /\ InitSelf
    /\ phase = "new"
    /\ rx_alive = FALSE
    /\ InitObs
    /\ InitVadObs

pipelineVars == <<cfgVars, selfVars, phase, rx_alive, obsVars, vadVars>>

\* AudioInput::start: the stream is built for audio.channels channels and
\* the senders of the enabled channels, whose queues are empty.
InitInput ==
    /\ InitPipelineIdle
    /\ InitBufObs
    /\ InitMainTasks
    /\ InitRouterIdle
    /\ InitBackIdle
    /\ num_channels \in ChannelCounts
    /\ \E n \in SenderCounts :
         /\ queues = [c \in 1..n |-> [items |-> <<>>, closed |-> FALSE]]
         /\ channels = [c \in 1..n |-> [id |-> c - 1, enabled |-> TRUE]]
    /\ InitInObs

\* One run of data_callback on a frame of N * K samples.  The consumers
\* run concurrently with the callback; a receive or a close that falls
\* between two try_send calls affects only a queue the callback has not
\* reached yet, as if it had come before the callback.
CaptureCallback ==
    /\ ncallbacks < MaxCallbacks
    /\ \E n \in FrameCounts, ts \in Timestamps :
         \E data \in [1..(n * num_channels) -> InputSamples] :
           \E r \in {DataCallback(queues, data, ts, num_channels)} :
             /\ queues' = r.queues
             /\ cb' = [data |-> data, ts |-> ts, results |-> r.results,
                       before |-> queues, after |-> r.queues]
    /\ ncallbacks' = ncallbacks + 1
    /\ UNCHANGED <<pipelineVars, bufVars, mainVars, routerVars, backVars,
                   num_channels, channels>>

\* The chunk task of a channel takes the chunk at the front of its queue
\* (rx.recv() in main.rs).
QueueRecv ==
    /\ \E c \in DOMAIN queues :
         /\ queues[c].items # <<>>
         /\ queues' = [queues EXCEPT ![c].items = Tail(@)]
    /\ UNCHANGED <<pipelineVars, bufVars, mainVars, routerVars, backVars,
                   num_channels, ncallbacks, cb, channels>>

\* The chunk task of a channel ends and drops its receiver.
QueueClose ==
    /\ \E c \in DOMAIN queues :
         /\ ~queues[c].closed
         /\ queues' = [queues EXCEPT ![c].closed = TRUE, ![c].items = <<>>]
    /\ UNCHANGED <<pipelineVars, bufVars, mainVars, routerVars, backVars,
                   num_channels, ncallbacks, cb, channels>>

NextInput ==
    \/ CaptureCallback
    \/ QueueRecv
    \/ QueueClose

SpecInput == InitInput /\ [][NextInput]_vars

\* ---------------------------------------------------------- SpecWiring
\* main hands the senders of the enabled channels to AudioInput::start; the
\* callback then feeds the queues.

InitWiring ==
    /\ InitPipelineIdle
    /\ InitBufObs
    /\ InitMainTasks
    /\ InitRouterIdle
    /\ InitBackIdle
    /\ num_channels = 2
    /\ channels \in ChannelConfigs
    /\ queues = [p \in 1..Len(EnabledChannels(channels)) |->
                    [items |-> <<>>, closed |-> FALSE]]
    /\ InitInObs

NextWiring == CaptureCallback \/ QueueRecv

SpecWiring == InitWiring /\ [][NextWiring]_vars

\* ------------------------------------------------------------ SpecMain

\* Sample count of the chunks the capture delivers in SpecMain (1 ms).
MainChunkLen == 16

\* main after processor.start() returned Ok for the one enabled channel and
\* the tasks were spawned: the wave file is open, and a session is open iff
\* connect_on_startup.
InitMain ==
    /\ connect_on_startup \in BOOLEAN
    /\ send_buffered_on_reconnect = FALSE
    /\ silence_threshold_ms = SilenceThresholdMs
    /\ hangover_duration_ms = 0
    /\ drop_policy = "DropOldest"
    /\ transcribe_tx = IF connect_on_startup THEN "Some" ELSE "None"
    /\ transcribe_rx = IF connect_on_startup THEN "Some" ELSE "None"
    /\ connection_state =
         IF connect_on_startup THEN "Connected" ELSE "Disconnected"
    /\ transcribe_status =
         IF connect_on_startup THEN "Connected" ELSE "Disconnected"
    /\ silence_duration_ms = 0
    /\ buffered_samples_during_disconnect = <<>>
    /\ audio_output_tx = FALSE
    /\ vad = Silence
    /\ current_file = TRUE
    /\ samples_written = 0
    /\ buffer = [chunks |-> <<>>, total_samples |-> 0]
    /\ phase = "started"
    /\ rx_alive = connect_on_startup
    /\ InitObs
    /\ InitVadObs
    /\ InitBufObs
    /\ InitInIdle
    /\ InitMainTasks
    /\ InitRouterIdle
    /\ InitBackIdle

\* What no task of SpecMain changes.
mainFrame == <<cfgVars, vadVars, bufVars, inVars, routerVars, backVars>>
taskObs == <<call, nchunks, delivered, file_samples, write_failed, sil_sum,
             pending_reconnect, sessions, voice_seen, undelivered,
             forwarded_ids>>

\* The running flag is cleared (ctrlc handler, or the TUI's quit keys).
StopSignal ==
    /\ running
    /\ running' = FALSE
    /\ UNCHANGED <<mainFrame, selfVars, phase, rx_alive, obsVars, chunk_task,
                   transcript_task, output_monitor_task, main_task,
                   processor_lock, capturing, in_queue, arrived, stalled>>

\* The capture callback enqueues a chunk for the channel (try_send).
ChunkArrives ==
    /\ capturing
    /\ arrived < MaxChunks
    /\ in_queue < QueueCap
    /\ in_queue' = in_queue + 1
    /\ arrived' = arrived + 1
    /\ UNCHANGED <<mainFrame, selfVars, phase, rx_alive, obsVars, running,
                   chunk_task, transcript_task, output_monitor_task,
                   main_task, processor_lock, capturing, stalled>>

\* A bounded queue the pipeline sends to with send().await is full and its
\* consumer, still holding the receiver, has stopped draining it: the
\* recognizer's outbound queue of the open session, or the monitor queue.
ConsumerStalls ==
    /\ \E q \in {"recognizer", "monitor"} :
         /\ q \notin stalled
         /\ q = "recognizer" => transcribe_tx = "Some"
         /\ stalled' = stalled \cup {q}
    /\ UNCHANGED <<mainFrame, selfVars, phase, rx_alive, obsVars, running,
                   chunk_task, transcript_task, output_monitor_task,
                   main_task, processor_lock, capturing, in_queue, arrived>>

\* Chunk task, head of the loop: while running_clone.load(..).
ChunkLoopHead ==
    /\ chunk_task = "head"
    /\ chunk_task' = IF running THEN "select" ELSE "done"
    /\ UNCHANGED <<mainFrame, selfVars, phase, rx_alive, obsVars, running,
                   transcript_task, output_monitor_task, main_task,
                   processor_lock, capturing, in_queue, arrived, stalled>>

\* Chunk task, select!: the 100 ms sleep wins when no chunk is queued.
ChunkSelectTimeout ==
    /\ chunk_task = "select"
    /\ in_queue = 0
    /\ chunk_task' = "head"
    /\ UNCHANGED <<mainFrame, selfVars, phase, rx_alive, obsVars, running,
                   transcript_task, output_monitor_task, main_task,
                   processor_lock, capturing, in_queue, arrived, stalled>>

\* Chunk task, select!: rx.recv() yields a chunk.
ChunkSelectRecv ==
    /\ chunk_task = "select"
    /\ in_queue > 0
    /\ in_queue' = in_queue - 1
    /\ chunk_task' = "lock"
    /\ UNCHANGED <<mainFrame, selfVars, phase, rx_alive, obsVars, running,
                   transcript_task, output_monitor_task, main_task,
                   processor_lock, capturing, arrived, stalled>>

\* Chunk task: processor_clone.lock().await, then process_chunk(chunk).
\* The call runs to its end and the guard is dropped, unless one of its
\* send().await calls finds its queue stalled: then the call stays in that
\* await and the task keeps the mutex.  (The fields are set as by the
\* completed call; a call waiting in a send has not yet made the
\* assignments that follow that send.)  A session opened by the call has a
\* new, empty queue.
ChunkProcess ==
    /\ chunk_task = "lock"
    /\ processor_lock = "none"
    /\ \E loud \in BOOLEAN :
         LET chunk == [id |-> arrived, len |-> MainChunkLen, loud |-> loud]
             in == [write_fails |-> FALSE, start_stream |-> "Ok",
                    fresh_alive |-> TRUE, rx_alive |-> TRUE,
                    monitor_ok |-> TRUE]
         IN  \E out \in {ProcessChunkOp(Self, chunk, in, Cfg)} :
             \E at_step6 \in
                  {/\ "recognizer" \in stalled
                   /\ out.forwarded # <<>>
                   /\ out.start_stream # "Ok"},
                at_step7 \in
                  {/\ "monitor" \in stalled
                   /\ out.monitor = "sent"} :
             \E blocks \in {at_step6 \/ at_step7} :
               /\ SetSelf(out.self)
               /\ rx_alive' = (out.self.transcribe_tx = "Some")
               /\ late_chunk' = (late_chunk \/ phase = "stopped")
               /\ chunk_task' = IF at_step6 THEN "send_recognizer"
                                ELSE IF at_step7 THEN "send_monitor"
                                ELSE "head"
               /\ processor_lock' = IF blocks THEN "chunk_task" ELSE "none"
               /\ stalled' = IF out.self.transcribe_tx = "None"
                                \/ out.start_stream = "Ok"
                             THEN stalled \ {"recognizer"} ELSE stalled
    /\ UNCHANGED <<mainFrame, phase, taskObs, running, transcript_task,
                   output_monitor_task, main_task, capturing, in_queue,
                   arrived>>

\* Transcript task, head of the loop.
TranscriptLoopHead ==
    /\ transcript_task = "head"
    /\ transcript_task' = IF running THEN "sleep" ELSE "stop"
    /\ UNCHANGED <<mainFrame, selfVars, phase, rx_alive, obsVars, running,
                   chunk_task, output_monitor_task, main_task,
                   processor_lock, capturing, in_queue, arrived, stalled>>

\* Transcript task: the 200 ms sleep ends.
TranscriptWake ==
    /\ transcript_task = "sleep"
    /\ transcript_task' = "lock"
    /\ UNCHANGED <<mainFrame, selfVars, phase, rx_alive, obsVars, running,
                   chunk_task, output_monitor_task, main_task,
                   processor_lock, capturing, in_queue, arrived, stalled>>

\* Transcript task: lock the pipeline, poll_transcripts (try_recv only),
\* publish, unlock.
TranscriptPoll ==
    /\ transcript_task = "lock"
    /\ processor_lock = "none"
    /\ transcript_task' = "head"
    /\ UNCHANGED <<mainFrame, selfVars, phase, rx_alive, obsVars, running,
                   chunk_task, output_monitor_task, main_task,
                   processor_lock, capturing, in_queue, arrived, stalled>>

\* Transcript task, after its loop: lock the pipeline and call stop().
TranscriptStop ==
    /\ transcript_task = "stop"
    /\ processor_lock = "none"
    /\ SetSelf([Self EXCEPT !.transcribe_tx = "None",
                            !.wav = Finalize(Self.wav)])
    /\ phase' = "stopped"
    /\ rx_alive' = FALSE
    /\ stalled' = stalled \ {"recognizer"}
    /\ transcript_task' = "done"
    /\ UNCHANGED <<mainFrame, obsVars, running, chunk_task,
                   output_monitor_task, main_task, processor_lock,
                   capturing, in_queue, arrived>>

\* Output monitor task, head of the loop.
OutputMonitorLoopHead ==
    /\ output_monitor_task = "head"
    /\ output_monitor_task' = IF running THEN "sleep" ELSE "done"
    /\ UNCHANGED <<mainFrame, selfVars, phase, rx_alive, obsVars, running,
                   chunk_task, transcript_task, main_task, processor_lock,
                   capturing, in_queue, arrived, stalled>>

\* Output monitor task: after the 100 ms sleep the selection is unchanged,
\* or it has changed to or from this channel and the task locks the
\* pipeline to set or clear its monitor sender.
OutputMonitorPoll ==
    /\ output_monitor_task = "sleep"
    /\ \E changed \in BOOLEAN :
         /\ changed => processor_lock = "none"
         /\ audio_output_tx' = IF changed THEN ~audio_output_tx
                               ELSE audio_output_tx
    /\ output_monitor_task' = "head"
    /\ UNCHANGED <<mainFrame, transcribe_tx, transcribe_rx, connection_state,
                   silence_duration_ms, buffered_samples_during_disconnect,
                   transcribe_status, vad, current_file, samples_written,
                   buffer, phase, rx_alive, obsVars, running, chunk_task,
                   transcript_task, main_task, processor_lock, capturing,
                   in_queue, arrived, stalled>>

\* Main task: its 100 ms loop sees the flag cleared.
MainSeesFlag ==
    /\ main_task = "wait"
    /\ ~running
    /\ main_task' = "cleanup"
    /\ UNCHANGED <<mainFrame, selfVars, phase, rx_alive, obsVars, running,
                   chunk_task, transcript_task, output_monitor_task,
                   processor_lock, capturing, in_queue, arrived, stalled>>

\* Main task: audio_input.stop(), audio_output.stop(), the TUI task ends.
MainCleanup ==
    /\ main_task = "cleanup"
    /\ capturing' = FALSE
    /\ main_task' = "join"
    /\ UNCHANGED <<mainFrame, selfVars, phase, rx_alive, obsVars, running,
                   chunk_task, transcript_task, output_monitor_task,
                   processor_lock, in_queue, arrived, stalled>>

\* Main task: `for task in tasks { task.await }` completes.
MainJoin ==
    /\ main_task = "join"
    /\ chunk_task = "done"
    /\ transcript_task = "done"
    /\ output_monitor_task = "done"
    /\ main_task' = "exited"
    /\ UNCHANGED <<mainFrame, selfVars, phase, rx_alive, obsVars, running,
                   chunk_task, transcript_task, output_monitor_task,
                   processor_lock, capturing, in_queue, arrived, stalled>>

ChunkTask ==
    ChunkLoopHead \/ ChunkSelectTimeout \/ ChunkSelectRecv \/ ChunkProcess

TranscriptTask ==
    TranscriptLoopHead \/ TranscriptWake \/ TranscriptPoll \/ TranscriptStop

OutputMonitorTask == OutputMonitorLoopHead \/ OutputMonitorPoll

MainTask == MainSeesFlag \/ MainCleanup \/ MainJoin

NextMain ==
    \/ StopSignal
    \/ ChunkArrives
    \/ ConsumerStalls
    \/ ChunkTask
    \/ TranscriptTask
    \/ OutputMonitorTask
    \/ MainTask

\* The tokio runtime runs every task that can make a step.
SpecMain ==
    /\ InitMain
    /\ [][NextMain]_vars
    /\ WF_vars(ChunkTask)
    /\ WF_vars(TranscriptTask)
    /\ WF_vars(OutputMonitorTask)
    /\ WF_vars(MainTask)

\* ---------------------------------------------------------- SpecRouter

\* main after the tasks are spawned, seen from the output monitor task:
\* every enabled channel has a started pipeline.
InitRouter == InitMain

\* What the dashboard, the router and the pipelines' mutexes leave alone.
routerFrame == <<pipelineVars, bufVars, inVars, backVars, chunk_task,
                 transcript_task, main_task, processor_lock, capturing,
                 in_queue, arrived>>

\* The pipelines whose audio_output_tx is Some.
Installed == {c \in RouterChannels : monitor_tx[c]}

\* The values of the selected-output field.
Selections == {{}} \cup {{c} : c \in RouterChannels}

\* TuiApp::run, a digit key for an existing channel: select it, or
\* deselect it when it is the current selection.  The loop ends when the
\* running flag is cleared.
SelectKey ==
    /\ running
    /\ \E c \in RouterChannels :
         selected' = IF selected = {c} THEN {} ELSE {c}
    /\ UNCHANGED <<routerFrame, running, stalled, output_monitor_task,
                   last_selected, current_selected, monitor_tx,
                   processor_locks>>

\* A pipeline's chunk task or transcript task takes the pipeline's mutex.
PipelineLocks ==
    /\ \E c \in RouterChannels :
         /\ processor_locks[c] = "none"
         /\ processor_locks' = [processor_locks EXCEPT ![c] = "task"]
    /\ UNCHANGED <<routerFrame, running, stalled, output_monitor_task,
                   selected, last_selected, current_selected, monitor_tx>>

\* The call made under the mutex returns and the guard is dropped.
PipelineUnlocks(c) ==
    /\ processor_locks[c] = "task"
    /\ processor_locks' = [processor_locks EXCEPT ![c] = "none"]
    /\ UNCHANGED <<routerFrame, running, stalled, output_monitor_task,
                   selected, last_selected, current_selected, monitor_tx>>

\* process_chunk, called under the mutex, waits in send().await on a
\* stalled queue: the monitor queue if the pipeline has the sender, or
\* the pipeline's recognizer queue.
PipelineBlocks ==
    /\ \E c \in RouterChannels :
         /\ processor_locks[c] = "task"
         /\ \/ "monitor" \in stalled /\ monitor_tx[c]
            \/ "recognizer" \in stalled
         /\ processor_locks' = [processor_locks EXCEPT ![c] = "blocked"]
    /\ UNCHANGED <<routerFrame, running, stalled, output_monitor_task,
                   selected, last_selected, current_selected, monitor_tx>>

\* Output monitor task, head of the loop.
RouterLoopHead ==
    /\ output_monitor_task = "head"
    /\ output_monitor_task' = IF running THEN "sleep" ELSE "done"
    /\ UNCHANGED <<routerFrame, running, stalled, routerVars>>

\* After the 100 ms sleep: read the selected-output field and compare it
\* with last_selected.
RouterPoll ==
    /\ output_monitor_task = "sleep"
    /\ current_selected' = selected
    /\ output_monitor_task' = IF selected # last_selected THEN "clear"
                              ELSE "head"
    /\ UNCHANGED <<routerFrame, running, stalled, selected, last_selected,
                   monitor_tx, processor_locks>>

\* if let Some(old_id) = last_selected: lock that pipeline and
\* clear_audio_output().
RouterClear ==
    /\ output_monitor_task = "clear"
    /\ \A old_id \in last_selected : processor_locks[old_id] = "none"
    /\ monitor_tx' = [c \in RouterChannels |->
                        monitor_tx[c] /\ c \notin last_selected]
    /\ output_monitor_task' = "set"
    /\ UNCHANGED <<routerFrame, running, stalled, selected, last_selected,
                   current_selected, processor_locks>>

\* if let Some(new_id) = current_selected: lock that pipeline and
\* set_audio_output(); then last_selected = current_selected.
RouterSet ==
    /\ output_monitor_task = "set"
    /\ \A new_id \in current_selected : processor_locks[new_id] = "none"
    /\ monitor_tx' = [c \in RouterChannels |->
                        monitor_tx[c] \/ c \in current_selected]
    /\ last_selected' = current_selected
    /\ output_monitor_task' = "head"
    /\ UNCHANGED <<routerFrame, running, stalled, selected,
                   current_selected, processor_locks>>

RouterTask == RouterLoopHead \/ RouterPoll \/ RouterClear \/ RouterSet

NextRouter ==
    \/ StopSignal
    \/ ConsumerStalls
    \/ SelectKey
    \/ PipelineLocks
    \/ \E c \in RouterChannels : PipelineUnlocks(c)
    \/ PipelineBlocks
    \/ RouterTask

\* A call under a pipeline's mutex that can return does return; the tokio
\* mutex is fair, so the router gets a mutex that is released again and
\* again.
SpecRouter ==
    /\ InitRouter
    /\ [][NextRouter]_vars
    /\ \A c \in RouterChannels : WF_vars(PipelineUnlocks(c))
    /\ SF_vars(RouterTask)

\* --------------------------------------------------------- SpecSession

\* Everything outside the recognizer backend.
backFrame == <<pipelineVars, bufVars, inVars, mainVars, routerVars,
               textVars, framerVars, taskVars, lockVars>>

\* TranscribeBackend::reset_start_time at instant t: the reference time
\* becomes "now".
ResetStartTime(st, t) == t

\* start_stream: the spawned task captures self.start_time; no audio has
\* been streamed yet.
StartStream(st) == [open |-> TRUE, start_time |-> st, audio_secs |-> 0]

\* A reconnect that starts the stream on the old reference time.
ReconnectBackendKeepsTime(st, t) ==
    [start_time |-> st, session |-> StartStream(st)]

\* reconnect_transcribe, the backend part: reset_start_time(), then
\* start_stream().
ReconnectBackend(st, t) ==
    LET reset == ResetStartTime(st, t)
    IN  [start_time |-> reset, session |-> StartStream(reset)]

\* TranscriptResult::new: now.duration_since(start_time).unwrap_or_default().
Elapsed(t, st) == IF t >= st THEN t - st ELSE 0

\* TranscriptResult::new_with_audio_time: the recognizer-reported start of
\* the segment, in seconds of the session's audio.
NewWithAudioTime(start_secs) == start_secs

\* The event loop's choice per alternative: the start_time of the first
\* item when the alternative has items, else the reference time.
TranscriptElapsed(items_start, t, st) ==
    IF items_start # {}
    THEN NewWithAudioTime(CHOOSE x \in items_start : TRUE)
    ELSE Elapsed(t, st)

\* The start times a recognizer can report next: segments come in order,
\* within the audio streamed so far.
AudioStarts ==
    LET prev == {transcripts[i].elapsed :
                     i \in {j \in DOMAIN transcripts : transcripts[j].audio}}
    IN  {x \in 0..session.audio_secs : \A y \in prev : y <= x}

\* One second passes.
Tick ==
    /\ now < MaxTime
    /\ now' = now + 1
    /\ UNCHANGED <<backFrame, resVars, start_time, session, transcripts, reconnect_at,
                   nsessions>>

\* reconnect_transcribe while Disconnected; start_stream returns Ok or Err.
SessReconnect ==
    /\ ~session.open
    /\ nsessions < MaxSessions
    /\ \E outcome \in StartStreamOutcomes :
         LET r == ReconnectBackend(start_time, now)
         IN  /\ start_time' = r.start_time
             /\ IF outcome = "Ok"
                THEN /\ session' = r.session
                     /\ transcripts' = <<>>
                     /\ reconnect_at' = now
                     /\ nsessions' = nsessions + 1
                ELSE UNCHANGED <<session, transcripts, reconnect_at,
                                 nsessions>>
    /\ UNCHANGED <<backFrame, resVars, now>>

\* disconnect_transcribe, or the session ends.
SessDisconnect ==
    /\ session.open
    /\ session' = [session EXCEPT !.open = FALSE]
    /\ UNCHANGED <<backFrame, resVars, now, start_time, transcripts, reconnect_at, nsessions>>

\* One more second of audio has been streamed to the recognizer (live, or
\* replayed from the retry buffer at once).
SessAudio ==
    /\ session.open
    /\ session.audio_secs < MaxTime
    /\ session' = [session EXCEPT !.audio_secs = @ + 1]
    /\ UNCHANGED <<backFrame, resVars, now, start_time, transcripts, reconnect_at, nsessions>>

\* The event loop turns one alternative of a transcript event into a
\* TranscriptResult.
SessTranscript ==
    /\ session.open
    /\ Len(transcripts) < MaxTranscripts
    /\ \E items_start \in {{}} \cup {{x} : x \in AudioStarts} :
         transcripts' = Append(transcripts,
             [elapsed |-> TranscriptElapsed(items_start, now,
                                            session.start_time),
              at |-> now,
              audio |-> items_start # {}])
    /\ UNCHANGED <<backFrame, resVars, now, start_time, session, reconnect_at, nsessions>>

InitSession ==
    /\ InitPipelineIdle
    /\ InitExt

NextSession ==
    \/ Tick
    \/ SessReconnect
    \/ SessDisconnect
    \/ SessAudio
    \/ SessTranscript

SpecSession == InitSession /\ [][NextSession]_vars

\* --------------------------------------------------------- SpecResults

\* The slots of the inbound transcript queue.
ResultQueueCap == 32

\* A try_send that takes one transcript more than the queue has slots.
ResultTrySendOffByOne(queue, transcript) ==
    IF queue.closed THEN [queue |-> queue, result |-> "Closed"]
    ELSE IF Len(queue.items) > ResultQueueCap
    THEN [queue |-> queue, result |-> "Full"]
    ELSE [queue |-> [queue EXCEPT !.items = Append(@, transcript)],
          result |-> "Ok"]

\* result_tx.try_send(transcript) on the 32-slot queue.
ResultTrySend(queue, transcript) ==
    IF queue.closed THEN [queue |-> queue, result |-> "Closed"]
    ELSE IF Len(queue.items) >= ResultQueueCap
    THEN [queue |-> queue, result |-> "Full"]
    ELSE [queue |-> [queue EXCEPT !.items = Append(@, transcript)],
          result |-> "Ok"]

\* The event loop handles one alternative: it offers the transcript, logs
\* a failed offer, and goes on with the next event.
EventTranscript ==
    /\ nevents < MaxEvents
    /\ LET id == nevents + 1
           r == ResultTrySend(result_queue, id)
       IN  /\ result_queue' = r.queue
           /\ nevents' = id
           /\ offer' = [id |-> id, before |-> result_queue.items,
                        after |-> r.queue.items, result |-> r.result]
           /\ ndropped' = IF r.result = "Ok" THEN ndropped ELSE ndropped + 1
    /\ UNCHANGED <<backFrame, sessVars, nreceived>>

\* poll_transcripts: one rx.try_recv() that yields a transcript.
PollTranscript ==
    /\ ~result_queue.closed
    /\ result_queue.items # <<>>
    /\ result_queue' = [result_queue EXCEPT !.items = Tail(@)]
    /\ nreceived' = nreceived + 1
    /\ UNCHANGED <<backFrame, sessVars, nevents, offer, ndropped>>

\* The pipeline drops transcribe_rx (a new session replaces it).
ResultsClose ==
    /\ ~result_queue.closed
    /\ result_queue' = [items |-> <<>>, closed |-> TRUE]
    /\ UNCHANGED <<backFrame, sessVars, nevents, offer, ndropped, nreceived>>

InitResultsSpec ==
    /\ InitPipelineIdle
    /\ InitExt

NextResults == EventTranscript \/ PollTranscript \/ ResultsClose

SpecResults == InitResultsSpec /\ [][NextResults]_vars


\* ------------------------------------------------------------ SpecText
\* The transcript task cleans a transcript's text before it is shown.

textFrame == <<pipelineVars, bufVars, inVars, mainVars, routerVars, sessVars,
               resVars, framerVars, taskVars, lockVars>>

\* A transcript with any text arrives.
InitTextSpec ==
    /\ InitPipelineIdle
    /\ InitBufObs
    /\ InitInIdle
    /\ InitMainTasks
    /\ InitRouterIdle
    /\ InitSessIdle
    /\ InitResults
    /\ InitFramer
    /\ InitTasks
    /\ InitLocks
    /\ cleaned \in {[NoClean EXCEPT !.text = text] : text \in Texts}

\* remove_filler_words(text), and remove_filler_words of what it returned.
CleanText ==
    /\ ~cleaned.done
    /\ \E once \in {RemoveFillerWords(cleaned.text)} :
         cleaned' = [cleaned EXCEPT !.once = once,
                                    !.twice = RemoveFillerWords(once),
                                    !.done = TRUE]
    /\ UNCHANGED textFrame

NextText == CleanText

SpecText == InitTextSpec /\ [][NextText]_vars

\* ---------------------------------------------------------- SpecFramer
\* The input stream of a freshly opened session: the loop of start_stream's
\* stream! block. FlacEncoder::encode returns Ok for every non-empty frame
\* (16-bit mono samples under the default encoder configuration), so every
\* frame cut is sent.

framerFrame == <<pipelineVars, bufVars, inVars, mainVars, routerVars,
                 sessVars, resVars, textVars, taskVars, lockVars>>

InitFramerSpec ==
    /\ InitPipelineIdle
    /\ InitExt

\* Ok(Some(samples)): the chunk is appended; when the accumulator holds
\* min_samples, one frame of min_samples is drained, counted and sent.
FramerRecv ==
    /\ framing
    /\ nreceived_chunks < MaxFramerChunks
    /\ \E len \in FramerChunkLens :
         \E held \in {pcm_buffer + len}, min_samples \in {MinSamples(chunk_count)} :
           /\ nsamples' = nsamples + len
           /\ IF held >= min_samples
              THEN \E left \in {Drain(pcm_first, held, min_samples)} :
                     /\ pcm_buffer' = left.len
                     /\ pcm_first' = left.first
                     /\ chunk_count' = chunk_count + 1
                     /\ frames' = Append(frames,
                                         [first |-> pcm_first, len |-> min_samples,
                                          on |-> "recv", target |-> min_samples])
              ELSE /\ pcm_buffer' = held
                   /\ UNCHANGED <<pcm_first, chunk_count, frames>>
    /\ nreceived_chunks' = nreceived_chunks + 1
    /\ UNCHANGED <<framerFrame, framing>>

\* Err(_): no chunk within 100 ms; a non-empty accumulator is sent whole as
\* a short frame. chunk_count is left as it is.
FramerTimeout ==
    /\ framing
    /\ IF pcm_buffer > 0
       THEN \E left \in {Drain(pcm_first, pcm_buffer, pcm_buffer)} :
              /\ frames' = Append(frames,
                                  [first |-> pcm_first, len |-> pcm_buffer,
                                   on |-> "timeout",
                                   target |-> MinSamples(chunk_count)])
              /\ pcm_buffer' = left.len
              /\ pcm_first' = left.first
       ELSE UNCHANGED <<frames, pcm_buffer, pcm_first>>
    /\ UNCHANGED <<framerFrame, chunk_count, framing, nreceived_chunks,
                   nsamples>>

\* Ok(None): the queue is closed; a non-empty accumulator is sent as the
\* final frame and the loop ends.
FramerClose ==
    /\ framing
    /\ IF pcm_buffer > 0
       THEN frames' = Append(frames,
                             [first |-> pcm_first, len |-> pcm_buffer,
                              on |-> "close",
                              target |-> MinSamples(chunk_count)])
       ELSE UNCHANGED frames
    /\ framing' = FALSE
    /\ UNCHANGED <<framerFrame, pcm_buffer, pcm_first, chunk_count,
                   nreceived_chunks, nsamples>>

NextFramer == FramerRecv \/ FramerTimeout \/ FramerClose

SpecFramer == InitFramerSpec /\ [][NextFramer]_vars

\* ----------------------------------------------------------- SpecTasks
\* One channel's sessions: the pipeline reconnects and disconnects, the
\* background task of each session emits transcripts and ends, and the
\* transcript task polls.

\* The sessions a channel opens and the transcripts its tasks emit.
MaxTaskSessions == 3

MaxTaskTranscripts == 3

taskFrame == <<pipelineVars, bufVars, inVars, mainVars, routerVars, sessVars,
               resVars, textVars, framerVars, lockVars>>

\* tokio::spawn in start_stream: a running task with its audio queue and
\* its empty 32-slot transcript queue.
SpawnTask ==
    [alive |-> TRUE, audio_open |-> TRUE,
     results |-> [items |-> <<>>, closed |-> FALSE]]

\* Dropping an mpsc::Receiver closes its queue and frees what it holds.
DropReceiver(task) ==
    [task EXCEPT !.results = [items |-> <<>>, closed |-> TRUE]]

\* start_stream: the old JoinHandle is taken and dropped, which detaches
\* the old task and leaves it running; a new task is spawned.
StartStreamTask(tasks) == Append(tasks, SpawnTask)

InitTasksSpec ==
    /\ InitPipelineIdle
    /\ InitExt

\* reconnect_transcribe while Disconnected: start_stream, then
\* transcribe_tx = Some(tx) and transcribe_rx = Some(rx); the receiver held
\* before is dropped by the assignment.
TaskReconnect ==
    /\ conn = "Disconnected"
    /\ Len(session_tasks) < MaxTaskSessions
    /\ \E sid \in {Len(session_tasks) + 1} :
         /\ session_tasks' =
              StartStreamTask([s \in DOMAIN session_tasks |->
                                  IF s \in rx_session
                                  THEN DropReceiver(session_tasks[s])
                                  ELSE session_tasks[s]])
         /\ tx_session' = {sid}
         /\ rx_session' = {sid}
    /\ conn' = "Connected"
    /\ UNCHANGED <<taskFrame, polled, offers>>

\* disconnect_transcribe: the sender is dropped, which closes the audio
\* queue of its task; transcribe_rx is kept.
TaskDisconnect ==
    /\ conn = "Connected"
    /\ session_tasks' = [s \in DOMAIN session_tasks |->
                            IF s \in tx_session
                            THEN [session_tasks[s] EXCEPT !.audio_open = FALSE]
                            ELSE session_tasks[s]]
    /\ tx_session' = {}
    /\ conn' = "Disconnected"
    /\ UNCHANGED <<taskFrame, rx_session, polled, offers>>

\* process_chunk's send fails because the session's task has ended: the
\* sender is dropped and the pipeline is Disconnected.
TaskSendFailed ==
    /\ conn = "Connected"
    /\ \E s \in tx_session : ~session_tasks[s].alive
    /\ tx_session' = {}
    /\ conn' = "Disconnected"
    /\ UNCHANGED <<taskFrame, rx_session, session_tasks, polled, offers>>

\* The event loop of a running task offers one transcript to its queue.
TaskEmit ==
    /\ Len(offers) < MaxTaskTranscripts
    /\ \E s \in DOMAIN session_tasks :
         /\ session_tasks[s].alive
         /\ \E r \in {ResultTrySend(session_tasks[s].results, Len(offers) + 1)} :
              /\ session_tasks' = [session_tasks EXCEPT ![s].results = r.queue]
              /\ offers' = Append(offers, r.result)
    /\ UNCHANGED <<taskFrame, conn, tx_session, rx_session, polled>>

\* A task ends: the recognizer's event stream ends (after the audio queue
\* was closed and the input stream ended, or by itself) or fails.
TaskExit ==
    /\ \E s \in DOMAIN session_tasks :
         /\ session_tasks[s].alive
         /\ session_tasks' = [session_tasks EXCEPT ![s].alive = FALSE,
                                                   ![s].audio_open = FALSE]
    /\ UNCHANGED <<taskFrame, conn, tx_session, rx_session, polled, offers>>

\* poll_transcripts: try_recv on transcribe_rx until it is empty.
TaskPoll ==
    /\ \E s \in rx_session :
         /\ polled' = polled \o session_tasks[s].results.items
         /\ session_tasks' = [session_tasks EXCEPT ![s].results.items = <<>>]
    /\ UNCHANGED <<taskFrame, conn, tx_session, rx_session, offers>>

NextTasks ==
    \/ TaskReconnect
    \/ TaskDisconnect
    \/ TaskSendFailed
    \/ TaskEmit
    \/ TaskExit
    \/ TaskPoll

SpecTasks == InitTasksSpec /\ [][NextTasks]_vars

\* ----------------------------------------------------------- SpecLocks
\* The processors-map mutex and the pipelines' mutexes of main.rs, with the
\* tasks that take them: per channel the chunk task and the transcript
\* task, and the output monitor task (the router).

lockFrame == <<pipelineVars, bufVars, inVars, mainVars, routerVars, sessVars,
               resVars, textVars, framerVars, taskVars>>

\* A pipeline task that waits for the map's mutex while it holds its
\* pipeline's.
AwaitsMapUnderLock(kind, pc) ==
    IF pc = "want" THEN {"processor"}
    ELSE IF pc = "held" THEN {"map"}
    ELSE {}

\* The mutexes a chunk task or a transcript task waits for at pc: its
\* pipeline's at processor_clone.lock().await, and none inside
\* process_chunk, poll_transcripts or add_transcript_to_tui.
Awaits(kind, pc) == IF pc = "want" THEN {"processor"} ELSE {}

InitLocksSpec ==
    /\ InitPipelineIdle
    /\ InitExt

\* main's loop over the processors: the pipeline is put into the map under
\* the map's mutex, then its two tasks are spawned.
LkMainRegisters ==
    /\ map_lock = "none"
    /\ \E c \in LockChannels \ registered :
         /\ \A d \in LockChannels : d < c => d \in registered
         /\ registered' = registered \cup {c}
    /\ UNCHANGED <<lockFrame, map_lock, proc_lock, lock_pc, router_pc>>

\* A chunk arrives, or the 200 ms sleep of the transcript task is over: the
\* task calls processor_clone.lock().
LkTaskWants ==
    /\ \E t \in PipelineTasks :
         /\ t[2] \in registered
         /\ lock_pc[t] = "idle"
         /\ lock_pc' = [lock_pc EXCEPT ![t] = "want"]
    /\ UNCHANGED <<lockFrame, map_lock, proc_lock, router_pc, registered>>

\* The task gets its pipeline's mutex.
LkTaskAcquires ==
    /\ \E t \in PipelineTasks :
         /\ lock_pc[t] = "want"
         /\ proc_lock[t[2]] = "none"
         /\ proc_lock' = [proc_lock EXCEPT ![t[2]] = t[1]]
         /\ lock_pc' = [lock_pc EXCEPT ![t] = "held"]
    /\ UNCHANGED <<lockFrame, map_lock, router_pc, registered>>

\* process_chunk, under the mutex, waits in a queue's send().await.
LkTaskSends ==
    /\ \E c \in LockChannels :
         /\ lock_pc[<<"chunk", c>>] = "held"
         /\ lock_pc' = [lock_pc EXCEPT ![<<"chunk", c>>] = "send"]
    /\ UNCHANGED <<lockFrame, map_lock, proc_lock, router_pc, registered>>

\* The send completes.
LkSendCompletes ==
    /\ \E c \in LockChannels :
         /\ lock_pc[<<"chunk", c>>] = "send"
         /\ lock_pc' = [lock_pc EXCEPT ![<<"chunk", c>>] = "held"]
    /\ UNCHANGED <<lockFrame, map_lock, proc_lock, router_pc, registered>>

\* The call made under the mutex returns and the guard is dropped.
LkTaskReleases(t) ==
    /\ lock_pc[t] = "held"
    /\ Awaits(t[1], lock_pc[t]) = {}
    /\ proc_lock' = [proc_lock EXCEPT ![t[2]] = "none"]
    /\ lock_pc' = [lock_pc EXCEPT ![t] = "idle"]
    /\ UNCHANGED <<lockFrame, map_lock, router_pc, registered>>

\* The router, spawned after main's loop, sees a changed selection and
\* calls processors_map_clone.lock().
LkRouterWantsMap ==
    /\ registered = LockChannels
    /\ router_pc.pc = "idle"
    /\ \E old, new \in {{}} \cup {{c} : c \in LockChannels} :
         /\ old # new
         /\ router_pc' = [pc |-> "want_map", old |-> old, new |-> new]
    /\ UNCHANGED <<lockFrame, map_lock, proc_lock, lock_pc, registered>>

\* The router gets the map's mutex.
LkRouterAcquiresMap ==
    /\ router_pc.pc = "want_map"
    /\ map_lock = "none"
    /\ map_lock' = "router"
    /\ router_pc' = [router_pc EXCEPT !.pc = "old"]
    /\ UNCHANGED <<lockFrame, proc_lock, lock_pc, registered>>

\* if let Some(old_id) = last_selected: the router locks that pipeline,
\* calls clear_audio_output and drops the guard.
LkRouterOld ==
    /\ router_pc.pc = "old"
    /\ \A c \in router_pc.old : proc_lock[c] = "none"
    /\ router_pc' = [router_pc EXCEPT !.pc = "new"]
    /\ UNCHANGED <<lockFrame, map_lock, proc_lock, lock_pc, registered>>

\* if let Some(new_id) = current_selected: the router locks that pipeline,
\* calls set_audio_output and drops the guard; the map's guard is dropped
\* at the end of the block.
LkRouterNew ==
    /\ router_pc.pc = "new"
    /\ \A c \in router_pc.new : proc_lock[c] = "none"
    /\ map_lock' = "none"
    /\ router_pc' = [pc |-> "idle", old |-> {}, new |-> {}]
    /\ UNCHANGED <<lockFrame, proc_lock, lock_pc, registered>>

NextLocks ==
    \/ LkMainRegisters
    \/ LkTaskWants
    \/ LkTaskAcquires
    \/ LkTaskSends
    \/ LkSendCompletes
    \/ \E t \in PipelineTasks : LkTaskReleases(t)
    \/ LkRouterWantsMap
    \/ LkRouterAcquiresMap
    \/ LkRouterOld
    \/ LkRouterNew

SpecLocks == InitLocksSpec /\ [][NextLocks]_vars

\* ------------------------------------------------------------ properties

BufferIds == {buffer.chunks[i].id : i \in DOMAIN buffer.chunks}

SessionOpensOnlyOnVoice ==
    /\ call.op = "chunk" =>
         ((call.start_stream # "none") <=>
            (call.classified = "voice" /\ call.conn_before = "Disconnected"))
    /\ (call.op = "chunk" /\ call.classified = "silence"
          /\ call.conn_before = "Disconnected")
       => (/\ connection_state = "Disconnected"
           /\ transcribe_tx = call.tx_before
           /\ call.forwarded = <<>>)
    /\ (~connect_on_startup /\ ~voice_seen) => sessions = 0

\* A second session, opened by a voice-classified chunk after the first was
\* closed.
SessionReopenedOnVoice ==
    /\ call.op = "chunk"
    /\ call.classified = "voice"
    /\ call.start_stream = "Ok"
    /\ connection_state = "Connected"
    /\ sessions = 2

\* C3: a process_chunk call in which a send to the recognizer failed
\* returns with the pipeline Disconnected and the sender dropped, and the
\* next voice-classified chunk calls start_stream.
FailedSendDisconnects ==
    /\ (call.op = "chunk" /\ call.send_failed)
       => (connection_state = "Disconnected" /\ transcribe_tx = "None")
    /\ (call.op = "chunk" /\ call.pending_before /\ call.classified = "voice")
       => call.start_stream # "none"

\* A voice-classified chunk that reconnects after a failed send, and whose
\* own send, the first of the new session, fails too.
FailedSendThenReconnect ==
    /\ call.op = "chunk"
    /\ call.pending_before
    /\ call.classified = "voice"
    /\ call.start_stream = "Ok"
    /\ call.send_failed

UndeliveredVoiceIsReplayed ==
    (call.op = "chunk" /\ call.start_stream = "Ok" /\ ~call.send_failed)
    => (undelivered \cap BufferIds) \subseteq forwarded_ids

\* C7: process_chunk never returns an error.
ProcessChunkReturnsOk ==
    call.op = "chunk" => call.ret = "Ok"

\* C8: after every process_chunk call on a voice-classified chunk,
\* silence_ms is 0.
SilenceResetOnVoice ==
    (call.op = "chunk" /\ call.classified = "voice")
    => silence_duration_ms = 0

\* The four-row table of the VAD, for a chunk of d milliseconds.
VadTable(state, hangover, d, loud) ==
    IF loud THEN Voice(hangover)
    ELSE IF state.kind = "Silence" THEN Silence
    ELSE IF state.hangover_remaining_ms > d
         THEN Voice(state.hangover_remaining_ms - d)
         ELSE Silence

\* C9: for every state and every non-empty chunk, process moves to the
\* state of the four-row table with d = 1000 * len / sample_rate truncated,
\* and the remaining hangover stays within 0 .. hangover_duration_ms.
VadFollowsTable ==
    (nvad > 0 /\ vad_in.len > 0)
    => (/\ vad = VadTable(vad_prev, hangover_duration_ms,
                          ExactMs(vad_in.len), vad_in.loud)
        /\ vad.hangover_remaining_ms >= 0
        /\ vad.hangover_remaining_ms <= hangover_duration_ms)

\* C10: when a run of sub-threshold chunks of one non-zero length, after a
\* loud chunk, ends the Voice state, the real duration T of the run and the
\* real duration c of one chunk satisfy hangover - c <= T <= hangover + c
\* (in units of 1 / (1000 * sample_rate) ms).
HangoverWithinOneChunk ==
    (quiet.left /\ quiet.uniform /\ quiet.after_loud)
    => (/\ hangover_duration_ms * SampleRate - quiet.len * 1000
             <= quiet.samples * 1000
        /\ quiet.samples * 1000
             <= hangover_duration_ms * SampleRate + quiet.len * 1000)


RECURSIVE SumLen(_)
\* The samples held by a sequence of chunks.
SumLen(chunks) ==
    IF chunks = <<>> THEN 0 ELSE Head(chunks).len + SumLen(Tail(chunks))

\* The chunks of seq from position k on.
Suffix(seq, k) == SubSeq(seq, k, Len(seq))

\* The longest suffix of seq whose samples fit the capacity.
LongestFittingSuffix(seq) ==
    LET fits == {k \in 1..(Len(seq) + 1) :
                    SumLen(Suffix(seq, k)) <= CapacitySeconds * SampleRate}
    IN  Suffix(seq, CHOOSE k \in fits : \A j \in fits : k <= j)

\* C11: after every push, for every drop policy, the stored sample count is
\* at most capacity_seconds * sample_rate and is the sum of the stored
\* chunks' lengths, and the eviction loop ended after at most one iteration
\* per chunk that was in the deque.
BufferWithinCapacity ==
    /\ buffer.total_samples <= CapacitySeconds * SampleRate
    /\ buffer.total_samples = SumLen(buffer.chunks)
    /\ push_steps <= Len(push_before.chunks) + 1

\* A chunk longer than the whole capacity was pushed under the Block policy
\* into a buffer that held chunks, and the loop emptied the deque.
BufferOverlongChunkPushed ==
    /\ drop_policy = "Block"
    /\ pushed # <<>>
    /\ pushed[Len(pushed)].len > CapacitySeconds * SampleRate
    /\ Len(push_before.chunks) >= 2
    /\ push_steps = Len(push_before.chunks) + 1
    /\ buffer.chunks = <<>>

\* C12: under DropOldest, after any sequence of pushes the buffer holds
\* exactly the longest suffix of the pushed sequence that fits the
\* capacity, in push order.
DropOldestKeepsLongestSuffix ==
    drop_policy = "DropOldest"
    => buffer.chunks = LongestFittingSuffix(pushed)

\* Under DropOldest the front chunks were evicted and more than one of the
\* newest are held.
DropOldestEvictedFront ==
    /\ drop_policy = "DropOldest"
    /\ Len(pushed) >= 3
    /\ Len(buffer.chunks) >= 2
    /\ buffer.total_samples > 0
    /\ Len(buffer.chunks) < Len(push_before.chunks) + 1
    /\ buffer.chunks[Len(buffer.chunks)] = pushed[Len(pushed)]

\* C13: under DropNewest, a push that would make the total exceed the
\* capacity leaves the stored chunks and the total as they were, and a push
\* that fits appends the chunk at the back.
DropNewestDiscardsPushed ==
    (drop_policy = "DropNewest" /\ pushed # <<>>)
    => LET chunk == pushed[Len(pushed)]
       IN  IF push_before.total_samples + chunk.len
                > CapacitySeconds * SampleRate
           THEN buffer = push_before
           ELSE /\ buffer.chunks = Append(push_before.chunks, chunk)
                /\ buffer.total_samples
                     = push_before.total_samples + chunk.len

\* Under DropNewest a chunk was discarded on arrival at a buffer that held
\* chunks, which it still holds.
DropNewestDiscardReached ==
    /\ drop_policy = "DropNewest"
    /\ pushed # <<>>
    /\ push_before.total_samples > 0
    /\ push_before.total_samples + pushed[Len(pushed)].len
         > CapacitySeconds * SampleRate
    /\ push_steps = 1
    /\ buffer = push_before

\* C14: after every push the timestamps of the stored chunks are
\* non-decreasing from front to back.
TimestampsNonDecreasing ==
    \A i, j \in DOMAIN buffer.chunks :
        i < j => buffer.chunks[i].ts <= buffer.chunks[j].ts


\* The chunks the last callback added at the back of queue c.
AddedBy(c) ==
    SubSeq(cb.after[c].items, Len(cb.before[c].items) + 1,
           Len(cb.after[c].items))

\* C15: a callback on a frame of N * K interleaved samples adds at most one
\* chunk to each channel queue c; the chunk has exactly N samples, the
\* converted samples at the interleaved indices c, c + K, c + 2K, ..., and
\* the timestamp taken on callback entry.
CallbackDeliversChannelChunk ==
    \A c \in DOMAIN cb.before :
        LET n == Len(cb.data) \div num_channels
            added == AddedBy(c)
        IN  /\ Len(cb.after[c].items) >= Len(cb.before[c].items)
            /\ SubSeq(cb.after[c].items, 1, Len(cb.before[c].items))
                 = cb.before[c].items
            /\ Len(added) <= 1
            /\ Len(added) = 1 =>
                 /\ c <= num_channels
                 /\ Len(added[1].samples) = n
                 /\ \A i \in 1..n :
                      added[1].samples[i] =
                        ConvertSample(cb.data[(i - 1) * num_channels + c])
                 /\ added[1].timestamp_ns = cb.ts

\* A frame of two samples for each of two channels was delivered to both
\* queues, as different chunks of the same timestamp.
CallbackDeliveredBoth ==
    /\ num_channels = 2
    /\ Len(cb.data) = 4
    /\ Len(cb.results) >= 2
    /\ cb.results[1] = "Ok"
    /\ cb.results[2] = "Ok"
    /\ AddedBy(1)[1].samples # AddedBy(2)[1].samples
    /\ AddedBy(1)[1].samples[1] # AddedBy(1)[1].samples[2]
    /\ AddedBy(1)[1].timestamp_ns = AddedBy(2)[1].timestamp_ns

\* C16: the callback can always run to completion, whatever queues are
\* full or closed; each queue of a channel of the frame is tried once, and
\* a full or closed queue loses only its own chunk while every queue with
\* room receives its chunk.
CallbackNeverBlocks ==
    /\ ncallbacks < MaxCallbacks => ENABLED CaptureCallback
    /\ \A c \in DOMAIN cb.before :
         IF c > num_channels
         THEN cb.results[c] = "none" /\ cb.after[c] = cb.before[c]
         ELSE /\ cb.results[c] =
                   IF cb.before[c].closed THEN "Closed"
                   ELSE IF Len(cb.before[c].items) >= QueueCap THEN "Full"
                   ELSE "Ok"
              /\ cb.results[c] = "Ok" => Len(AddedBy(c)) = 1
              /\ cb.results[c] # "Ok" => cb.after[c] = cb.before[c]

\* The first channel's queue was full and the second channel still
\* received its chunk in the same callback.
CallbackDroppedOnlyFullChannel ==
    /\ Len(cb.results) >= 2
    /\ cb.results[1] = "Full"
    /\ cb.results[2] = "Ok"
    /\ Len(cb.data) > 0
    /\ Len(AddedBy(2)) = 1


\* C19: after stop() has returned Ok, the recognizer's outbound sender is
\* dropped, the wave writer is finalized, and the channel's status in the
\* dashboard state is Disconnected.
StopPublishesDisconnected ==
    (call.op = "stop" /\ call.ret = "Ok")
    => (/\ transcribe_tx = "None"
        /\ ~current_file
        /\ transcribe_status = "Disconnected")


\* C17: after the running flag is cleared, the chunk task and the
\* transcript task eventually leave their loops, stop() is eventually
\* called, and the main task's wait for the tasks completes.
ShutdownCompletes ==
    (~running) ~> (/\ chunk_task = "done"
                   /\ transcript_task = "done"
                   /\ phase = "stopped"
                   /\ main_task = "exited")

\* C18: once stop() has run, the chunk task has finished: no process_chunk
\* call executes after stop(), and the wave file stays finalized.
StopAfterChunkTask ==
    /\ phase = "stopped" => chunk_task = "done"
    /\ ~late_chunk
    /\ phase = "stopped" => ~current_file


\* C20: at every moment at most one pipeline has a monitor sender, and
\* while the router is between two changes the sender is on the pipeline
\* of last_selected and on no other; and a selection that stays unchanged
\* while the program runs is eventually the one installed.
MonitorFollowsSelection ==
    /\ [](Cardinality(Installed) <= 1)
    /\ [](output_monitor_task \in {"head", "sleep"}
            => Installed = last_selected)
    /\ \A t \in Selections :
         (running /\ selected = t)
            ~> (Installed = t \/ selected # t \/ ~running)


\* C21: process_chunk never waits for the monitor consumer: the chunk task
\* is never held in the monitor send of step 7.
MonitorSendNeverBlocks == chunk_task # "send_monitor"


ElapsedNonDecreasing ==
    \A i, j \in DOMAIN transcripts :
        i <= j => transcripts[i].elapsed <= transcripts[j].elapsed


\* C24: the event loop can always handle its next event; the transcript
\* queue never holds more than its 32 slots; an offer to a full queue is
\* dropped and leaves the queue as it was; an offer to a queue with room
\* (whatever was dropped before) is enqueued behind the others.
EventLoopNeverBlocks ==
    /\ nevents < MaxEvents => ENABLED EventTranscript
    /\ Len(result_queue.items) <= ResultQueueCap
    /\ offer.result = "Full"
          => Len(offer.before) = ResultQueueCap /\ offer.after = offer.before
    /\ offer.result = "Ok"
          => /\ Len(offer.before) < ResultQueueCap
             /\ offer.after = Append(offer.before, offer.id)
    /\ offer.result = "Closed" => offer.after = offer.before
    /\ nevents = ndropped + nreceived + Len(result_queue.items)
         \/ result_queue.closed

\* C24 witness: a transcript was dropped on the full queue, the consumer
\* made room, and a later transcript was enqueued.
LaterTranscriptDelivered ==
    /\ ndropped > 0
    /\ nreceived > 0
    /\ offer.result = "Ok"
    /\ offer.id > ResultQueueCap + 1
    /\ ~result_queue.closed


RECURSIVE WholeSlices(_)
RECURSIVE SliceSamples(_)
RECURSIVE DropSamples(_, _)

\* The slices of whole chunks, oldest first.
WholeSlices(chunks) ==
    IF chunks = <<>> THEN <<>>
    ELSE Slice(Head(chunks), 0, Head(chunks).len) \o WholeSlices(Tail(chunks))

\* The samples of a sequence of slices.
SliceSamples(slices) ==
    IF slices = <<>> THEN 0
    ELSE Head(slices).hi - Head(slices).lo + SliceSamples(Tail(slices))

\* A sequence of slices without its first k samples.
DropSamples(slices, k) ==
    IF k = 0 \/ slices = <<>> THEN slices
    ELSE LET s == Head(slices)
         IN  IF s.hi - s.lo <= k
             THEN DropSamples(Tail(slices), k - (s.hi - s.lo))
             ELSE <<[s EXCEPT !.lo = @ + k]>> \o Tail(slices)

GetRangeReturnsSubInterval ==
    (rd.op = "get_range" /\ Len(rd.before.chunks) = 1) =>
      LET chunk == rd.before.chunks[1]
          t_end == chunk.ts + chunk.len * NsPerSample
          from == IF rd.a > chunk.ts THEN rd.a ELSE chunk.ts
          to == IF rd.b < t_end THEN rd.b ELSE t_end
      IN  /\ ~rd.panic
          /\ rd.result = IF from < to
                         THEN Slice(chunk, (from - chunk.ts) \div NsPerSample,
                                    (to - chunk.ts) \div NsPerSample)
                         ELSE <<>>

\* C27: after clear_before(ns) the buffer holds the chunks that do not end
\* before ns, in their order, and counts their samples.
ClearBeforeKeepsLater ==
    rd.op = "clear_before" =>
      LET keeps(chunk) == ~(chunk.ts + chunk.len * NsPerSample < rd.a)
          kept == SelectSeq(rd.before.chunks, keeps)
      IN  /\ rd.after.chunks = kept
          /\ rd.after.total_samples = SumLen(kept)


\* C28: process on an empty chunk returns false and leaves the detector's
\* state, with its remaining hangover, as it was.
EmptyChunkIsSilentNoOp ==
    (nvad > 0 /\ vad_in.len = 0) => (~vad_ret /\ vad = vad_prev)

\* C28 witness: an empty chunk fed while the state is Voice with part of
\* the hangover used up.
EmptyChunkDuringHangover ==
    /\ nvad > 0
    /\ vad_in.len = 0
    /\ vad.kind = "Voice"
    /\ vad.hangover_remaining_ms > 0
    /\ vad.hangover_remaining_ms < hangover_duration_ms


\* C29: filler removal is idempotent: applying remove_filler_words to its
\* own result returns that result, for every text, texts of repeated or
\* adjacent filler words included.
FillerRemovalIdempotent == cleaned.done => cleaned.twice = cleaned.once

\* C30: counting every frame sent upstream in the session, short frames
\* flushed on a receive timeout included, the frames cut at a target size
\* use the initial target when they are among the first five frames sent
\* and the steady target afterwards.
FramerTargetsByFramesSent ==
    \A i \in 1..Len(frames) :
        frames[i].on = "recv" =>
            frames[i].target = IF i <= 5 THEN initial_min_samples
                                         ELSE max_samples

\* C31: while the framer runs, the accumulator holds fewer samples than
\* the current target frame size: after a received chunk every complete
\* slice of the target size has been sent.
AccumulatorBelowTarget == framing => pcm_buffer < MinSamples(chunk_count)

RECURSIVE FrameSamples(_)
FrameSamples(fs) ==
    IF fs = <<>> THEN 0 ELSE fs[Len(fs)].len + FrameSamples(SubSeq(fs, 1, Len(fs) - 1))

\* C32: the frames sent are, in order, consecutive runs of the samples
\* received, starting with the first sample; with the accumulator they make
\* up the samples received, and once the queue is closed the frames alone
\* do. A frame flushed on timeout or on close is not empty.
FramesCarryReceivedSamples ==
    /\ \A i \in 1..Len(frames) :
          /\ frames[i].first = FrameSamples(SubSeq(frames, 1, i - 1))
          /\ frames[i].len > 0
    /\ framing => FrameSamples(frames) + pcm_buffer = nsamples
    /\ ~framing => FrameSamples(frames) = nsamples

\* C32 witness: the queue was closed after a target frame and a timeout
\* flush, and the final frame carried the rest.
FinalFrameAfterTimeoutFlush ==
    /\ ~framing
    /\ \E i, j \in 1..Len(frames) :
          /\ i < j
          /\ frames[i].on = "recv"
          /\ frames[j].on = "timeout"
    /\ frames[Len(frames)].on = "close"

\* C33: a process_chunk call that classifies its chunk while the pipeline
\* is Connected puts on the recognizer's outbound queue, unless the send
\* fails because the session's receiver is gone, exactly the chunk's own
\* samples when the chunk is voice-classified, exactly one all-zero chunk
\* of the same length when it is silence-classified and the call does not
\* disconnect, and nothing when the call disconnects.
ConnectedForwardsOneChunk ==
    (call.op = "chunk" /\ call.classified # "unclassified"
       /\ call.conn_before = "Connected")
    => /\ Len(call.forwarded) <= 1
       /\ call.disconnect => call.forwarded = <<>>
       /\ (call.classified = "voice" /\ ~call.send_failed)
            => call.forwarded = <<Pcm(call.chunk)>>
       /\ (call.classified = "silence" /\ ~call.disconnect
             /\ ~call.send_failed)
            => call.forwarded = <<Zeros(call.chunk)>>

\* C35: connection_state is Connected exactly when transcribe_tx holds a
\* sender.
ConnectedIffSender ==
    (connection_state = "Connected") <=> (transcribe_tx = "Some")

\* C34: the chunk a callback adds to the queue of the pipeline with
\* configured id c holds the frame's interleaved samples at offset c, for
\* every channel list, lists with a disabled lower id or in descending
\* order included.
PipelineGetsOwnOffset ==
    \A p \in DOMAIN cb.before :
        \A i \in DOMAIN AddedBy(p) :
            AddedBy(p)[i].samples =
                ExtractChannel(cb.data, num_channels,
                               EnabledChannels(channels)[p])

\* C36: at most one background task of the channel is alive at any time.
OneTaskPerChannel ==
    Cardinality({s \in DOMAIN session_tasks : session_tasks[s].alive}) <= 1

\* C37: every transcript a task has emitted and its queue had room for has
\* been returned by poll_transcripts or waits in the queue whose receiver
\* the pipeline holds, so that the next poll returns it.
TranscriptsReachPoll ==
    \A id \in DOMAIN offers :
        offers[id] # "Full" =>
            \/ \E i \in DOMAIN polled : polled[i] = id
            \/ \E s \in rx_session :
                 \E i \in DOMAIN session_tasks[s].results.items :
                    session_tasks[s].results.items[i] = id

\* The holder of pipeline c's mutex can release it, or waits only for a
\* queue send to complete.
HolderProceeds(c) ==
    LET holder == <<proc_lock[c], c>>
    IN  \/ lock_pc[holder] = "send"
        \/ ENABLED LkTaskReleases(holder)

\* C38: whenever a chunk task, a transcript task or the router waits for a
\* pipeline's mutex, the holder can release it unless it waits for a queue
\* send; and the map's mutex is free whenever the router asks for it.
LocksNeverDeadlock ==
    /\ \A t \in PipelineTasks :
          (lock_pc[t] = "want" /\ proc_lock[t[2]] # "none")
             => HolderProceeds(t[2])
    /\ \A c \in LockChannels :
          (/\ \/ router_pc.pc = "old" /\ c \in router_pc.old
              \/ router_pc.pc = "new" /\ c \in router_pc.new
           /\ proc_lock[c] # "none")
             => HolderProceeds(c)
    /\ router_pc.pc = "want_map" => map_lock = "none"

\* C38 witness: the router holds the map's mutex and waits for a pipeline
\* whose chunk task holds the pipeline's mutex while the transcript task
\* waits for it too.
RouterWaitsBehindChunkTask ==
    \E c \in LockChannels :
        /\ map_lock = "router"
        /\ router_pc.pc = "new"
        /\ c \in router_pc.new
        /\ proc_lock[c] = "chunk"
        /\ lock_pc[<<"chunk", c>>] = "held"
        /\ lock_pc[<<"transcript", c>>] = "want"

\* C39: a non-empty sub-threshold chunk fed in a Voice state ends the Voice
\* state or leaves less hangover than there was, whatever its length; so a
\* run of such chunks reaches Silence after finitely many of them.
QuietChunkUsesUpHangover ==
    (nvad > 0 /\ vad_prev.kind = "Voice" /\ vad_in.len > 0 /\ ~vad_in.loud)
    => \/ vad.kind = "Silence"
       \/ vad.hangover_remaining_ms < vad_prev.hangover_remaining_ms

\* C40: get_range(from_ns, to_ns) with from_ns > to_ns takes no slice whose
\* start exceeds its end and returns an empty sequence, whatever the buffer
\* holds.
GetRangeReversedIsEmpty ==
    (rd.op = "get_range" /\ rd.a > rd.b) => (~rd.panic /\ rd.result = <<>>)

=============================================================================
